---- MODULE Spec2Model ----
(***************************************************************************)
(* Model of the playback orchestrator of @dreamer/video-player:            *)
(* VideoPlayer (src/src/types.ts, the player.ts part), the engine base     *)
(* class and factory (src/src/engines), the format detector                *)
(* (src/src/utils/logger.ts, the format-detector.ts part) and the          *)
(* throttle / debounce helpers (src/src/utils/throttle.ts).                *)
(*                                                                         *)
(* Time is relative: every pending setTimeout callback carries the         *)
(* milliseconds it still has to wait, every throttle closure the           *)
(* milliseconds elapsed since its lastCall (saturated at its delay).       *)
(* Timers that are due run in any order, before more time passes.          *)
(***************************************************************************)
EXTENDS Integers, Sequences, FiniteSets, TLC

VARIABLES
    options,              \* VideoPlayer.options: maxRetries, fallbackSources, autoSelectBestFormat
    browser,              \* environment: user agent family and codec support
    engine,               \* VideoPlayer.engine (the engine object with its listener map) or NoEngine
    currentSrc,           \* VideoPlayer.currentSrc
    currentFormat,        \* VideoPlayer.currentFormat
    retryCount,           \* VideoPlayer.retryCount
    engineEventHandlers,  \* VideoPlayer.engineEventHandlers
    engineEventsSetup,    \* VideoPlayer.engineEventsSetup
    eventListeners,       \* VideoPlayer.eventListeners: events the consumer has a callback for
    closures,             \* state of the throttle / debounce closures made by the last setupEngineEvents
    errorCount,           \* VideoPlayer.stats.errorCount
    timers,               \* pending setTimeout callbacks, in creation order
    out,                  \* consumer-visible emissions of the last step
    step,                 \* what the last step was, how its engine.load ended, whether it scheduled a reload
    attempts,             \* locators handed to engine.load since the last loadSource call by the consumer
    calls,                \* number of loadSource calls made by the consumer
    requested,            \* the consumer's last loadSource call: locator handed to the engine, whether it
                          \* loaded, and whether every engine.load since then has failed
    destroyed,            \* destroy() has returned
    gen,                  \* number of setupEngineEvents runs (identity of the handlers they create)
    engines,              \* number of engines created so far (identity of engine objects)
    win,                  \* bookkeeping of the current 250 ms timeupdate window
    flv,                  \* an FLVPlayerEngine: configuration, reconnect state, emissions
    hls,                  \* an HLSPlayerEngine: its hls.js instance, recoveries, emissions
    media,                \* the video element's clock and the stored playback position
    surface,              \* a video element's listeners and the engines built on it
    list,                 \* VideoPlayer.playlist, playlistIndex, playlistOriginalOrder, playlistShuffle
    stats,                \* VideoPlayer.stats, playStartTime, bufferingStartTime, and the clock
    network,              \* navigator's connection and VideoPlayer.networkInfo
    quality,              \* options.preferredQuality and the adaptive engine's quality controls
    factory,              \* a call of detectVideoFormat or PlayerEngineFactory.create and its result
    audio,                \* the video element's volume and playbackRate, in hundredths
    throttled,            \* a function returned by throttle(func, delay): lastCall, its timer
    isPictureInPicture    \* VideoPlayer.isPictureInPicture

vars == <<options, browser, engine, currentSrc, currentFormat, retryCount,
          engineEventHandlers, engineEventsSetup, eventListeners, closures,
          errorCount, timers, out, step, attempts, calls, requested,
          destroyed, gen, engines, win, flv, hls, media, surface, list,
          stats, network, quality, factory, audio, throttled, isPictureInPicture>>

----------------------------------------------------------------------------
(* Bounds of the model *)

MaxCalls == 2          \* loadSource calls made by the consumer
MaxEngineErrors == 1   \* 'error' events raised by the engine after load
MaxRaw == 3            \* raw timeupdate events per 250 ms window
MaxReloads == 1        \* loads made while events are flowing
MaxLosses == 3         \* connection-loss signals an FLV engine receives
MaxManual == 1         \* manual reconnect() calls on an FLV engine
MaxFlvReloads == 3     \* reloads made by the reconnect timer of an FLV engine
MaxFatals == 3         \* fatal errors hls.js raises
MaxHlsLoads == 2       \* load calls on an HLS engine
MaxTime == 10          \* length of the video in seconds
MaxDestroys == 2       \* destroy() calls on a player
MaxHistLoads == 1      \* loads of the same locator after construction
MaxEngines == 3        \* engines built on one video element
MaxItems == 3          \* items of a playlist
MaxListOps == 2        \* playlist operations after construction
MaxClock == 4          \* seconds the statistics are followed for
MaxStatOps == 4        \* events and calls that touch the statistics
MaxQualitySets == 2    \* setQualityLevel calls
MaxQualityLoads == 2   \* loadSource calls after a quality was chosen
MaxInvocations == 4    \* calls of func made through one throttled function
MaxBackoffRetries == 5 \* options.maxRetries of the player whose delays are observed

(* Program constants *)

DefaultMaxRetries == 3
RetryBaseDelay == 1000     \* loadWithRetry: 1000 * 2^(n-1)
DefaultReconnectDelay == 3000  \* FLVPlayerEngine: config.reconnectDelay
RetryMaxDelay == 10000     \* loadWithRetry: ceiling of the backoff
TimeUpdateDelay == 250     \* throttle delay of timeupdate
VolumeChangeDelay == 300   \* debounce delay of volumechange
SeekingDelay == 100        \* throttle delay of seeking
RestoreThreshold == 5      \* restorePlaybackPosition: only positions above 5 s
VolumeMin == 0             \* setVolume: Math.max(0, ...), in hundredths
VolumeMax == 100           \* setVolume: Math.min(1, ...), in hundredths
RateMin == 25              \* setPlaybackRate: Math.max(0.25, ...), in hundredths
RateMax == 400             \* setPlaybackRate: Math.min(4, ...), in hundredths

----------------------------------------------------------------------------
(* Small helpers *)

Min(a, b) == IF a <= b THEN a ELSE b

Max(a, b) == IF a >= b THEN a ELSE b

RECURSIVE Pow2(_)
Pow2(n) == IF n <= 0 THEN 1 ELSE 2 * Pow2(n - 1)

IsPrefix(s, t) == Len(s) <= Len(t) /\ \A i \in 1..Len(s) : s[i] = t[i]

RemoveAt(s, i) == [j \in 1..(Len(s) - 1) |-> IF j < i THEN s[j] ELSE s[j + 1]]

----------------------------------------------------------------------------
(* Locators.  A locator is described by the syntactic features the code     *)
(* inspects: scheme, whether a host is present (new URL() throws without a  *)
(* scheme or host), the extension of the path as written, whether the path  *)
(* ends in "/", and the substrings and query parameters the detector and    *)
(* the RTMP translation look for.                                           *)

Locator(scheme, host, ext, slash, slashFlv, live, pathFlv, formatFlv, type, av1, query) ==
    [scheme |-> scheme, host |-> host, ext |-> ext, slash |-> slash,
     slashFlv |-> slashFlv, live |-> live, pathFlv |-> pathFlv,
     formatFlv |-> formatFlv, type |-> type, av1 |-> av1, query |-> query]

\* http://h/a.mp4
LocMp4 == Locator("http", TRUE, "mp4", FALSE, FALSE, FALSE, FALSE, FALSE, "", FALSE, FALSE)
\* http://h/b.m3u8
LocHls == Locator("http", TRUE, "m3u8", FALSE, FALSE, FALSE, FALSE, FALSE, "", FALSE, FALSE)
\* http://h/c.flv
LocFlv == Locator("http", TRUE, "flv", FALSE, FALSE, FALSE, TRUE, FALSE, "", FALSE, FALSE)
\* rtmp://h/app/?type=application/x-mpegurl  (no stream name after the last "/")
LocRtmpDir == Locator("rtmp", TRUE, "", TRUE, FALSE, FALSE, FALSE, FALSE, "application/x-mpegurl", FALSE, TRUE)

\* the absence of a locator (undefined / null)
NoSrc == Locator("null", FALSE, "", FALSE, FALSE, FALSE, FALSE, FALSE, "", FALSE, FALSE)

Lower(ext) ==
    CASE ext = "M3U8" -> "m3u8"
      [] ext = "MPD" -> "mpd"
      [] ext = "FLV" -> "flv"
      [] ext = "MP4" -> "mp4"
      [] ext = "WEBM" -> "webm"
      [] OTHER -> ext

\* new URL(src) succeeds
Parsable(src) == src.scheme # "" /\ src.host

\* the switch on the extension and the "type" query parameter (inside the try)
FormatByUrl(src) ==
    LET extension == Lower(src.ext) IN
    CASE extension = "m3u8" -> "hls"
      [] extension = "mpd" -> "dash"
      [] extension = "flv" -> "flv"
      [] extension \in {"mp4", "m4v"} -> IF src.av1 THEN "av1" ELSE "mp4"
      [] extension = "webm" -> IF src.av1 THEN "av1" ELSE "webm"
      [] extension \in {"ogg", "ogv"} -> "ogg"
      [] OTHER ->
           CASE src.type \in {"application/vnd.apple.mpegurl", "application/x-mpegurl"} -> "hls"
             [] src.type = "application/dash+xml" -> "dash"
             [] src.type = "video/flv" -> "flv"
             [] src.type \in {"av01", "av1"} -> "av1"
             [] src.type = "video/mp4" -> "mp4"
             [] src.type = "video/webm" -> "webm"
             [] src.type = "video/ogg" -> "ogg"
             [] OTHER -> "unknown"

\* the catch branch: case-sensitive substring match on the whole locator
FormatBySubstring(src) ==
    CASE src.ext = "m3u8" -> "hls"
      [] src.ext = "mpd" -> "dash"
      [] src.ext = "flv" -> "flv"
      [] OTHER -> "unknown"

\* detectVideoFormat; "throw" stands for the exception of the unguarded new URL()
detectVideoFormat(src) ==
    IF src.scheme \in {"rtmp", "rtmps"} THEN "rtmp"
    ELSE IF src.slashFlv /\ src.live /\ ~Parsable(src) THEN "throw"
    ELSE IF src.slashFlv /\ src.live /\ (src.pathFlv \/ src.formatFlv) THEN "flv"
    ELSE IF Parsable(src) THEN FormatByUrl(src)
    ELSE FormatBySubstring(src)

\* convertRTMPToHTTPFLV; NoSrc stands for null
convertRTMPToHTTPFLV(rtmpUrl) ==
    LET httpUrl == [rtmpUrl EXCEPT !.scheme =
                       CASE rtmpUrl.scheme = "rtmp" -> "http"
                         [] rtmpUrl.scheme = "rtmps" -> "https"
                         [] OTHER -> rtmpUrl.scheme]
        endsFlv == httpUrl.ext = "flv" /\ ~httpUrl.slash /\ ~httpUrl.query
        pathEndsFlv == httpUrl.ext = "flv" /\ ~httpUrl.slash
    IN  IF endsFlv THEN httpUrl
        ELSE IF ~Parsable(httpUrl) THEN NoSrc
        ELSE IF pathEndsFlv THEN httpUrl
        ELSE IF httpUrl.slash THEN httpUrl      \* /\/[^/]+$/ does not match: path kept
        ELSE [httpUrl EXCEPT !.ext = "flv", !.pathFlv = TRUE]

\* getRecommendedFormats
getRecommendedFormats(b) ==
    IF b.safari
    THEN <<"hls">> \o (IF b.safariAv1 THEN <<"av1">> ELSE <<>>) \o <<"mp4">>
    ELSE (IF b.av1 THEN <<"av1">> ELSE <<>>) \o <<"mp4", "webm", "hls", "dash">>

Includes(seq, x) == \E i \in 1..Len(seq) : seq[i] = x

----------------------------------------------------------------------------
(* Engines (BasePlayerEngine and its subclasses) *)

\* the event list of setupEngineEvents
EngineEvents ==
    <<"loadstart", "loadedmetadata", "loadeddata", "progress", "canplay",
      "canplaythrough", "play", "pause", "ended", "timeupdate", "volumechange",
      "ratechange", "seeking", "seeked", "waiting", "error",
      "connectionstatuschange">>

EventSet == {EngineEvents[i] : i \in 1..Len(EngineEvents)}

\* an empty Map<PlayerEvent, EventCallback[]>
EmptyHandlers == [e \in EventSet |-> <<>>]

NoEngine == [id |-> 0, kind |-> "none", fmt |-> "none", loaded |-> NoSrc,
             listeners |-> EmptyHandlers]

\* PlayerEngineFactory.create: the class of the engine built for a locator.
\* ctorThrows: the constructor of the specialised engine throws.
FactoryKind(src, ctorThrows, fallbackToNative) ==
    LET format == detectVideoFormat(src)
        special == CASE format = "hls" -> "hls"
                     [] format = "dash" -> "dash"
                     [] format = "flv" -> "flv"
                     [] format = "rtmp" ->
                          IF convertRTMPToHTTPFLV(src) # NoSrc THEN "flv" ELSE "nortmp"
                     [] OTHER -> "native"
    IN  IF special = "native" THEN "native"
        ELSE IF special = "nortmp" THEN (IF fallbackToNative THEN "native" ELSE "throw")
        ELSE IF ~ctorThrows THEN special
        ELSE IF fallbackToNative THEN "native" ELSE "throw"

\* BasePlayerEngine.on
EngineOn(listeners, event, handler) ==
    [listeners EXCEPT ![event] = Append(@, handler)]

\* BasePlayerEngine.off with a callback
EngineOff(listeners, event, handler) ==
    [listeners EXCEPT ![event] = SelectSeq(@, LAMBDA cb : cb # handler)]

\* how engine.load(src) ends for an engine of a class.  env is what the page
\* offers at that moment: "ok", "unsupported" (isSupported() is false),
\* "libthrow" (the library throws); b is the browser (Safari plays HLS itself).
\* "throw": thrown before the try; "emitthrow": emit("error") and rethrow.
EngineLoadResult(kind, src, env, b) ==
    CASE kind = "native" -> "ok"
      [] kind = "hls" -> IF env = "unsupported" /\ ~b.safari THEN "throw" ELSE "ok"
      [] kind = "dash" ->
           IF env = "unsupported" THEN "throw"
           ELSE IF env = "libthrow" THEN "emitthrow" ELSE "ok"
      [] kind = "flv" ->
           IF env = "unsupported" THEN "throw"
           ELSE IF src.scheme \in {"rtmp", "rtmps"} /\ convertRTMPToHTTPFLV(src) = NoSrc
                THEN "throw"
           ELSE IF env = "libthrow" THEN "emitthrow" ELSE "ok"
      [] OTHER -> "throw"

----------------------------------------------------------------------------
(* The state as one record, so that the methods compose as the code calls   *)
(* them.                                                                    *)

State ==
    [options |-> options, browser |-> browser, engine |-> engine,
     currentSrc |-> currentSrc, currentFormat |-> currentFormat,
     retryCount |-> retryCount, engineEventHandlers |-> engineEventHandlers,
     engineEventsSetup |-> engineEventsSetup, eventListeners |-> eventListeners,
     closures |-> closures, errorCount |-> errorCount, timers |-> timers,
     out |-> out, step |-> step, attempts |-> attempts, calls |-> calls,
     requested |-> requested, destroyed |-> destroyed, gen |-> gen,
     engines |-> engines, win |-> win]

\* the player's fields become those of s
PlayerBecomes(s) ==
    /\ options' = s.options
    /\ browser' = s.browser
    /\ engine' = s.engine
    /\ currentSrc' = s.currentSrc
    /\ currentFormat' = s.currentFormat
    /\ retryCount' = s.retryCount
    /\ engineEventHandlers' = s.engineEventHandlers
    /\ engineEventsSetup' = s.engineEventsSetup
    /\ eventListeners' = s.eventListeners
    /\ closures' = s.closures
    /\ errorCount' = s.errorCount
    /\ timers' = s.timers
    /\ out' = s.out
    /\ step' = s.step
    /\ attempts' = s.attempts
    /\ calls' = s.calls
    /\ requested' = s.requested
    /\ destroyed' = s.destroyed
    /\ gen' = s.gen
    /\ engines' = s.engines
    /\ win' = s.win

\* a step of the player: the engines on their own and the history stand still
Becomes(s) ==
    /\ PlayerBecomes(s)
    /\ UNCHANGED <<flv, hls, media, surface, list,
          stats, network, quality, factory, audio, throttled, isPictureInPicture>>

\* a step starts with nothing emitted yet
Begin(op) == [State EXCEPT !.out = <<>>, !.step = [op |-> op, load |-> "none", scheduled |-> FALSE]]

Timer(kind, src, ev, g, delay) ==
    [kind |-> kind, src |-> src, ev |-> ev, gen |-> g, delay |-> delay,
     remaining |-> delay]

\* the closures of a fresh throttle() / debounce(): lastCall = 0
FreshClosures ==
    [timeupdate |-> [since |-> TimeUpdateDelay],
     seeking |-> [since |-> SeekingDelay]]

ThrottleDelay(ev) == IF ev = "timeupdate" THEN TimeUpdateDelay ELSE SeekingDelay

----------------------------------------------------------------------------
(* VideoPlayer: events *)

\* VideoPlayer.emit: the callbacks of the consumer run.  via / g tell which
\* code path and which setupEngineEvents run produced the emission.
Emit(s, ev, via, g) ==
    IF ev \in s.eventListeners
    THEN [s EXCEPT !.out = Append(@, [ev |-> ev, via |-> via, gen |-> g])]
    ELSE s

\* VideoPlayer.handleEngineEvent, for the events raised in this model
handleEngineEvent(s, ev, g) ==
    LET s1 == IF ev = "error" THEN [s EXCEPT !.errorCount = @ + 1] ELSE s
    IN  Emit(s1, ev, "fwd", g)

\* clearTimeout(timeoutId) of the closure of run g for event ev
ClearClosureTimer(ts, kind, ev, g) ==
    SelectSeq(ts, LAMBDA t : ~(t.kind = kind /\ t.ev = ev /\ t.gen = g))

\* a throttle without the trailing call: calls inside the delay are dropped
ThrottledCall_Drop(s, ev, g) ==
    IF s.closures[ev].since >= ThrottleDelay(ev)
    THEN Emit([s EXCEPT !.closures[ev].since = 0], ev, "throttle", g)
    ELSE s

\* the function returned by throttle(func, delay), called
ThrottledCall(s, ev, g) ==
    LET timeSinceLastCall == s.closures[ev].since
        delay == ThrottleDelay(ev)
    IN  IF timeSinceLastCall >= delay
        THEN Emit([s EXCEPT !.closures[ev].since = 0], ev, "throttle", g)
        ELSE [s EXCEPT !.timers =
                 Append(ClearClosureTimer(@, "throttle", ev, g),
                        Timer("throttle", NoSrc, ev, g, delay - timeSinceLastCall))]

\* the function returned by debounce(func, delay), called
DebouncedCall(s, ev, g) ==
    [s EXCEPT !.timers =
        Append(ClearClosureTimer(@, "debounce", ev, g),
               Timer("debounce", NoSrc, ev, g, VolumeChangeDelay))]

CallHandler(s, ev, h) ==
    CASE h.kind = "fwd" -> handleEngineEvent(s, ev, h.gen)
      [] h.kind = "throttle" -> ThrottledCall(s, ev, h.gen)
      [] h.kind = "debounce" -> DebouncedCall(s, ev, h.gen)

\* BasePlayerEngine.emit: forEach over the listener array as it was at the call
RECURSIVE Dispatch(_, _, _)
Dispatch(s, ev, hs) ==
    IF hs = <<>> THEN s
    ELSE Dispatch(CallHandler(s, ev, Head(hs)), ev, Tail(hs))

EngineEmit(s, ev) == Dispatch(s, ev, s.engine.listeners[ev])

\* VideoPlayer.cleanupEngineEvents
RECURSIVE OffAll(_, _, _)
OffAll(listeners, event, hs) ==
    IF hs = <<>> THEN listeners
    ELSE OffAll(EngineOff(listeners, event, Head(hs)), event, Tail(hs))

cleanupEngineEvents(s) ==
    IF s.engine = NoEngine THEN s
    ELSE [s EXCEPT
            !.engine.listeners =
                [e \in EventSet |-> OffAll(@, e, s.engineEventHandlers[e])[e]],
            !.engineEventHandlers = EmptyHandlers,
            !.engineEventsSetup = FALSE]

\* the handlers one run of setupEngineEvents registers for an event, in order
NewHandlers(ev, g) ==
    <<[gen |-> g, kind |-> "fwd"]>>
    \o (IF ev \in {"timeupdate", "seeking"} THEN <<[gen |-> g, kind |-> "throttle"]>>
        ELSE IF ev = "volumechange" THEN <<[gen |-> g, kind |-> "debounce"]>>
        ELSE <<>>)

\* VideoPlayer.setupEngineEvents
setupEngineEvents(s) ==
    IF s.engine = NoEngine THEN s
    ELSE LET s1 == IF s.engineEventsSetup THEN cleanupEngineEvents(s) ELSE s
             g == s.gen + 1
         IN  [s1 EXCEPT
                !.engine.listeners = [e \in EventSet |-> @[e] \o NewHandlers(e, g)],
                !.engineEventHandlers = [e \in EventSet |-> @[e] \o NewHandlers(e, g)],
                !.closures = FreshClosures,
                !.gen = g,
                !.engineEventsSetup = TRUE]

----------------------------------------------------------------------------
(* VideoPlayer: loading *)

\* a guard that lets one attempt too many through
AttemptsRemain_Inclusive(s) == s.retryCount <= s.options.maxRetries

\* loadWithRetry: the guard of both retry branches
AttemptsRemain(s) == s.retryCount < s.options.maxRetries

\* an index that skips the first fallback
FallbackIndex_Next(n) == n + 1

\* loadWithRetry: fallbackSources[this.retryCount - 1], as a 1-based index
FallbackIndex(n) == n

\* loadWithRetry: Math.min(1000 * Math.pow(2, retryCount - 1), 10000)
RetryDelay(n) == Min(RetryBaseDelay * Pow2(n - 1), RetryMaxDelay)

\* loadWithRetry: the error emitted at the head of the catch block
EmitAttemptError(s) == Emit(s, "error", "attempt", 0)

\* loadWithRetry: the catch block after that emission
RetryOrGiveUp(s, src) ==
    LET F == s.options.fallbackSources
        tryFallback == Len(F) > 0 /\ AttemptsRemain(s)
        s1 == IF tryFallback THEN [s EXCEPT !.retryCount = @ + 1] ELSE s
        i == FallbackIndex(s1.retryCount)
    IN  IF tryFallback /\ i <= Len(F)
        THEN [s1 EXCEPT !.step.scheduled = TRUE,
                        !.timers = Append(@, Timer("fallback", F[i], "", 0,
                                                   RetryDelay(s1.retryCount)))]
        ELSE IF AttemptsRemain(s1)
        THEN [s1 EXCEPT !.retryCount = @ + 1,
                        !.step.scheduled = TRUE,
                        !.timers = Append(@, Timer("retry", src, "", 0,
                                                   RetryDelay(s1.retryCount + 1)))]
        ELSE Emit(s1, "error", "final", 0)

\* loadWithRetry: the try block once engine.load(src) has returned
LoadSucceeded(s) == setupEngineEvents([s EXCEPT !.retryCount = 0])

\* engine.load(src) as called by loadWithRetry, with what the engine emits
\* from inside load
EngineLoad(s, src, env) ==
    LET result == EngineLoadResult(s.engine.kind, src, env, s.browser)
        s1 == [s EXCEPT !.engine.loaded = src,
                        !.attempts = Append(@, src),
                        !.step.load = IF result = "ok" THEN "ok" ELSE "fail",
                        !.requested.allFailed = @ /\ result # "ok"]
    IN  IF result = "emitthrow" THEN EngineEmit(s1, "error")
        ELSE IF result = "ok" /\ s.engine.kind = "flv"
        THEN EngineEmit(s1, "connectionstatuschange")
        ELSE s1

\* VideoPlayer.loadWithRetry
loadWithRetry(s, src, env) ==
    IF s.engine = NoEngine
    THEN RetryOrGiveUp(EmitAttemptError([s EXCEPT !.step.load = "fail"]), src)
    ELSE LET s1 == EngineLoad(s, src, env)
         IN  IF s1.step.load = "ok" THEN LoadSucceeded(s1)
             ELSE RetryOrGiveUp(EmitAttemptError(s1), src)

\* loadSource: the first fallback source whose format is recommended (0: none)
FirstRecommended(F, rec) ==
    IF \E i \in 1..Len(F) : Includes(rec, detectVideoFormat(F[i]))
    THEN CHOOSE i \in 1..Len(F) :
            /\ Includes(rec, detectVideoFormat(F[i]))
            /\ \A j \in 1..(i - 1) : ~Includes(rec, detectVideoFormat(F[j]))
    ELSE 0

\* loadSource: the locator and format after autoSelectBestFormat
SelectBest(s, src) ==
    LET F == s.options.fallbackSources
        rec == getRecommendedFormats(s.browser)
        i == FirstRecommended(F, rec)
    IN  IF s.options.autoSelectBestFormat
           /\ ~Includes(rec, detectVideoFormat(src)) /\ Len(F) > 0 /\ i > 0
        THEN [src |-> F[i], format |-> detectVideoFormat(F[i])]
        ELSE [src |-> src, format |-> detectVideoFormat(src)]

\* loadSource: the locator and format after the RTMP translation
TranslateRtmp(sel) ==
    IF sel.format = "rtmp" /\ convertRTMPToHTTPFLV(sel.src) # NoSrc
    THEN [src |-> convertRTMPToHTTPFLV(sel.src), format |-> "flv"]
    ELSE sel

\* loadSource: the locator handed to the engine
ActualSrc(s, src) == TranslateRtmp(SelectBest(s, src)).src

\* loadSource: the condition under which the attached engine is replaced
FormatChanged(newFormat, curFormat) == newFormat # curFormat

\* a new engine object from PlayerEngineFactory.create
NewEngine(s, src) ==
    [id |-> s.engines + 1, kind |-> FactoryKind(src, FALSE, TRUE),
     fmt |-> detectVideoFormat(src), loaded |-> NoSrc, listeners |-> EmptyHandlers]

\* loadSource: create or replace the engine
EnsureEngine(s, actualSrc) ==
    IF s.engine = NoEngine
    THEN [s EXCEPT !.engine = NewEngine(s, actualSrc), !.engines = @ + 1]
    ELSE IF FormatChanged(detectVideoFormat(actualSrc), s.currentFormat)
    THEN [s EXCEPT !.engine = NewEngine(s, actualSrc), !.engines = @ + 1,
                   !.currentFormat = detectVideoFormat(actualSrc)]
    ELSE s

\* VideoPlayer.loadSource
loadSource(s, src, env) ==
    LET sel == TranslateRtmp(SelectBest(s, src))
        s1 == [s EXCEPT !.currentSrc = src, !.currentFormat = sel.format]
    IN  IF detectVideoFormat(src) = "throw"
        THEN [s EXCEPT !.currentSrc = src]      \* the exception leaves loadSource
        ELSE loadWithRetry(EnsureEngine(s1, sel.src), sel.src, env)

\* VideoPlayer.destroy
destroyPlayer(s) ==
    LET s1 == cleanupEngineEvents(s)
    IN  [s1 EXCEPT !.engine = NoEngine, !.eventListeners = {}, !.destroyed = TRUE]

----------------------------------------------------------------------------
(* Inputs *)

\* what the page offers when engine.load runs
Envs == {"ok", "unsupported", "libthrow"}

\* locators the consumer asks for
UserSrcs == {LocMp4, LocHls, LocRtmpDir}

FallbackLists == {<<>>, <<LocFlv>>, <<LocFlv, LocMp4>>}

\* options.maxRetries: none, one, the default
MaxRetriesSet == {0, 1, DefaultMaxRetries}

OptionSet ==
    [maxRetries : MaxRetriesSet, fallbackSources : FallbackLists,
     autoSelectBestFormat : BOOLEAN]

Chrome == [safari |-> FALSE, av1 |-> FALSE, safariAv1 |-> FALSE]

Safari == [safari |-> TRUE, av1 |-> FALSE, safariAv1 |-> FALSE]

Browsers == {Chrome, Safari}

NoWindow == [raw |-> 0, emitted |-> 0, seen |-> 0, age |-> TimeUpdateDelay, gen |-> 0,
             owed |-> {}, feed |-> {}]

----------------------------------------------------------------------------
(* FLVPlayerEngine: connection status and reconnect loop.  One record holds  *)
(* the engine: its configuration, its fields, the events its last step      *)
(* emitted (out), the status carried by the last connectionstatuschange     *)
(* (last), and the bookkeeping of the run: loss signals received (losses),  *)
(* loss signals and reconnect attempts since the last success signal or     *)
(* manual reconnect (streak, sched), reconnect loads executed (reloads),    *)
(* the delay handed to the last setTimeout of attemptReconnect (delay).     *)

FlvEngine(autoReconnect, maxReconnectAttempts) ==
    [autoReconnect |-> autoReconnect, maxReconnectAttempts |-> maxReconnectAttempts,
     reconnectDelay |-> DefaultReconnectDelay, delay |-> 0,
     currentSrc |-> FALSE, player |-> FALSE, reconnectCount |-> 0,
     reconnectTimer |-> FALSE, connectionStatus |-> "disconnected",
     destroyed |-> FALSE, out |-> <<>>, last |-> "none", exhausted |-> FALSE,
     threw |-> FALSE, op |-> "new",
     losses |-> 0, streak |-> 0, sched |-> 0, reloads |-> 0, manual |-> 0]

\* no FLV engine under observation
NoFlv == FlvEngine(FALSE, 0)

\* BasePlayerEngine.emit("connectionstatuschange", {status})
FlvStatus(f, status) ==
    [f EXCEPT !.connectionStatus = status,
              !.out = Append(@, [ev |-> "connectionstatuschange", status |-> status]),
              !.last = status]

\* BasePlayerEngine.emit("error", ...)
FlvEmitError(f) == [f EXCEPT !.out = Append(@, [ev |-> "error", status |-> "none"])]

\* a reconnect delay that doubles with every attempt
ReconnectDelay_Exponential(f, n) == Min(f.reconnectDelay * Pow2(n - 1), RetryMaxDelay)

\* attemptReconnect: const delay = this.config.reconnectDelay ?? 3000, for
\* reconnect attempt n
ReconnectDelay(f, n) == f.reconnectDelay

\* FLVPlayerEngine.attemptReconnect
attemptReconnect(f) ==
    IF ~f.autoReconnect \/ ~f.currentSrc THEN f
    ELSE IF f.reconnectCount >= f.maxReconnectAttempts
    THEN [FlvStatus(f, "error") EXCEPT !.exhausted = TRUE]
    ELSE LET f1 == [f EXCEPT !.reconnectCount = @ + 1]
         IN  [FlvStatus(f1, "connecting")
                EXCEPT !.reconnectTimer = TRUE, !.sched = @ + 1,
                       !.delay = ReconnectDelay(f1, f1.reconnectCount)]

\* FLVPlayerEngine.load(src) for an HTTP-FLV locator.  env "unsupported":
\* isSupported() is false, thrown before anything is set; "libthrow": flv.js
\* throws inside the try, emit("error") and rethrow; threw: load has thrown
FlvLoad(f, env) ==
    IF env = "unsupported" THEN [f EXCEPT !.threw = TRUE]
    ELSE LET f1 == [f EXCEPT !.currentSrc = TRUE, !.reconnectCount = 0, !.player = FALSE]
         IN  IF env = "libthrow" THEN [FlvEmitError(f1) EXCEPT !.threw = TRUE]
             ELSE FlvStatus([f1 EXCEPT !.player = TRUE], "connecting")

\* FLVPlayerEngine.handleNetworkStatus
handleNetworkStatus(f, networkState) ==
    CASE networkState = 3 -> attemptReconnect(FlvStatus(f, "disconnected"))
      [] networkState = 2 -> FlvStatus(f, "connecting")
      [] networkState = 1 -> FlvStatus(f, "connected")
      [] OTHER -> f

\* FLVPlayerEngine.handleError
handleError(f, errorType) ==
    LET f1 == FlvStatus(f, "error")
    IN  IF f.autoReconnect /\ errorType \in {"NetworkError", "NetworkException"}
        THEN attemptReconnect(f1)
        ELSE FlvEmitError(f1)

\* the callback of attemptReconnect's setTimeout
FlvReconnectTimer(f, env) ==
    LET f1 == [f EXCEPT !.reconnectTimer = FALSE, !.player = FALSE, !.reloads = @ + 1]
        f2 == FlvLoad(f1, env)
    IN  IF f2.threw THEN attemptReconnect([f2 EXCEPT !.threw = FALSE]) ELSE f2

\* FLVPlayerEngine.reconnect
reconnect(f) ==
    LET f1 == [f EXCEPT !.reconnectCount = 0]
    IN  IF f1.currentSrc THEN attemptReconnect(f1) ELSE f1

\* FLVPlayerEngine.destroy
FlvDestroyed(f) ==
    [f EXCEPT !.reconnectTimer = FALSE, !.player = FALSE,
              !.connectionStatus = "disconnected", !.destroyed = TRUE]

----------------------------------------------------------------------------
(* HLSPlayerEngine: one record holds the engine.  instance is this.hls:     *)
(* "none" (null), "live" (an hls.js instance with the handlers of load      *)
(* attached) or "dead" (an instance that was destroy()ed but is still        *)
(* referenced).  videoSrc says that load fell back to video.src.  out are    *)
(* the events the last step emitted.  The run's bookkeeping: fatal errors    *)
(* raised (fatals), the type of the last one (type), fatal errors of each    *)
(* type since the last load or MANIFEST_PARSED (streak), calls of            *)
(* hls.startLoad() and hls.recoverMediaError() (startLoads, recoveries),     *)
(* load calls (loads).                                                       *)

FatalTypes == {"networkError", "mediaError", "otherError"}

NoHls ==
    [instance |-> "none", videoSrc |-> FALSE, threw |-> FALSE, destroyed |-> FALSE,
     out |-> <<>>, op |-> "new", type |-> "none",
     streak |-> [t \in FatalTypes |-> 0],
     startLoads |-> 0, recoveries |-> 0, fatals |-> 0, loads |-> 0]

\* HLSPlayerEngine.load(src).  env "unsupported": HLSPlayerEngine.isSupported()
\* is false; "libthrow": globalThis.Hls is missing or new Hls() throws.
HlsLoad(h, env, b) ==
    LET h0 == [h EXCEPT !.loads = @ + 1, !.streak = [t \in FatalTypes |-> 0]]
    IN  IF env = "unsupported"
        THEN IF b.safari THEN [h0 EXCEPT !.videoSrc = TRUE]
             ELSE [h0 EXCEPT !.threw = TRUE]
        ELSE IF env = "libthrow"
             THEN [h0 EXCEPT !.instance = "none", !.videoSrc = TRUE]
             ELSE [h0 EXCEPT !.instance = "live"]

\* the Hls.Events.MANIFEST_PARSED handler
HlsManifestParsed(h) ==
    [h EXCEPT !.out = Append(@, "loadedmetadata"), !.streak = [t \in FatalTypes |-> 0]]

\* the Hls.Events.ERROR handler
HlsErrorHandler(h, fatal, type) ==
    IF ~fatal THEN h
    ELSE CASE type = "networkError" -> [h EXCEPT !.startLoads = @ + 1]
           [] type = "mediaError" -> [h EXCEPT !.recoveries = @ + 1]
           [] OTHER -> [h EXCEPT !.instance = "dead", !.out = Append(@, "error")]

\* HLSPlayerEngine.destroy()
HlsDestroyed(h) ==
    [h EXCEPT !.instance = "none", !.videoSrc = FALSE, !.destroyed = TRUE]

----------------------------------------------------------------------------
(* Playback history.  One record holds what destroy() and the position      *)
(* saver read and write outside the fields above: the option                 *)
(* enablePlaybackHistory, whether the 5 s interval of startPositionSaving    *)
(* is running (positionSaveTimer), the video element's currentTime and       *)
(* duration in seconds (0 while nothing is loaded), and the position         *)
(* StorageManager holds for currentSrc (NoPosition: no record).  The run's   *)
(* restoring holds the pending 500 ms timers of restorePlaybackPosition,      *)
(* each with its position and the locator it was set for.  The run's bookkeeping: destroy() calls made     *)
(* (destroys), the stored position when the first of them returned (kept),   *)
(* loads after construction (loads), the position that was stored when the   *)
(* last load began (left), what the last step was (op), and the clock and    *)
(* length read by the last run of the position saver (at).                   *)

NoPosition == -1

Media(enablePlaybackHistory, stored) ==
    [enablePlaybackHistory |-> enablePlaybackHistory,
     positionSaveTimer |-> enablePlaybackHistory,
     currentTime |-> 0, duration |-> 0, history |-> stored, restoring |-> {},
     destroys |-> 0, kept |-> NoPosition, loads |-> 0, left |-> stored,
     op |-> "new", at |-> [position |-> 0, duration |-> 0]]

NoMedia == Media(FALSE, NoPosition)

\* "position / duration > 0.9" in whole seconds
NearlyWatched(position, duration) == duration > 0 /\ position * 10 > duration * 9

\* VideoPlayer.savePlaybackPosition with StorageManager.savePlaybackHistory
\* and clearPlaybackHistory; s is the player
savePlaybackPosition(s, m) ==
    IF s.currentSrc = NoSrc THEN m
    ELSE IF NearlyWatched(m.currentTime, m.duration)
         THEN [m EXCEPT !.history = NoPosition]
         ELSE [m EXCEPT !.history = Max(0, m.currentTime)]

\* VideoPlayer.restorePlaybackPosition: the 500 ms timer is set
\* VideoPlayer.restorePlaybackPosition(src): the timer is set, nothing of it
\* is kept
restorePlaybackPosition(m, src) ==
    IF m.history # NoPosition /\ m.history > RestoreThreshold
    THEN [m EXCEPT !.restoring = @ \cup {[src |-> src, position |-> m.history]}]
    ELSE m

\* VideoPlayer.handleEngineEvent, case "loadedmetadata"; s is the player
handleLoadedMetadata(s, m) ==
    IF m.enablePlaybackHistory /\ s.currentSrc # NoSrc
    THEN restorePlaybackPosition(m, s.currentSrc)
    ELSE m

\* VideoPlayer.seek: the engine clamps the time to the length
seek(m, time) == [m EXCEPT !.currentTime = Max(0, Min(time, m.duration))]

\* the part of VideoPlayer.destroy that touches the history and the video
\* element: save the position, clear the interval, video.src = ""
destroyMedia(s, m) ==
    LET m1 == IF m.enablePlaybackHistory THEN savePlaybackPosition(s, m) ELSE m
    IN  [m1 EXCEPT !.positionSaveTimer = FALSE, !.currentTime = 0, !.duration = 0]

----------------------------------------------------------------------------
(* The rendering surface.  video maps every event of setupVideoEvents to    *)
(* the listeners addEventListener has put on the video element, each named   *)
(* by the engine that registered it; engines are the engine objects built    *)
(* on the element, in order, each with its class, whether destroy() ran,     *)
(* and the events its own listener map has callbacks for.  ran and delivered *)
(* are the engines whose listener ran, and whose callbacks ran, when the     *)
(* element last raised an event.                                             *)

\* the events setupVideoEvents listens to
VideoEvents == EventSet \ {"connectionstatuschange"}

EngineKinds == {"native", "hls", "dash", "flv"}

NoSurface ==
    [video |-> [e \in VideoEvents |-> <<>>], engines |-> <<>>,
     ran |-> <<>>, delivered |-> <<>>, op |-> "new"]

\* BasePlayerEngine.setupVideoEvents of engine id
setupVideoEvents(v, id) == [e \in VideoEvents |-> Append(v[e], id)]

\* new NativePlayerEngine(video) and the other subclasses: every constructor
\* ends with setupVideoEvents()
SurfaceNewEngine(u, kind) ==
    [u EXCEPT !.engines = Append(@, [kind |-> kind, destroyed |-> FALSE, eventListeners |-> {}]),
              !.video = setupVideoEvents(@, Len(u.engines) + 1)]

\* destroy() of the engine built last: every subclass resets the element's
\* source and clears its own listener map
SurfaceEngineDestroyed(u) ==
    [u EXCEPT !.engines[Len(u.engines)].destroyed = TRUE,
              !.engines[Len(u.engines)].eventListeners = {}]

\* the engine built last is in use
SurfaceLive(u) == u.engines # <<>> /\ ~u.engines[Len(u.engines)].destroyed

\* the element raises event: every listener on it calls its engine's emit
SurfaceRaised(u, event) ==
    [u EXCEPT !.ran = u.video[event],
              !.delivered = SelectSeq(u.video[event],
                                      LAMBDA id : event \in u.engines[id].eventListeners)]

----------------------------------------------------------------------------
(* The playlist.  An item is its src, a locator; indices are those of the   *)
(* code, from 0, so item i of the code is playlist[i + 1] here.  The         *)
(* playlist methods read and write both the playlist fields (list) and,      *)
(* through loadSource, the player (player): they take and return the pair.   *)
(* Playlist events have no subscriber here and are left out.                 *)
(* The run's bookkeeping: the playlist as it was just before the shuffle     *)
(* that is in force (before), whether that shuffle changed the order         *)
(* (moved), whether no item was added, removed or replaced since (clean),    *)
(* whether the last step restored the order of such a shuffle (restored),    *)
(* and the cursor and the loaded source before the last step (prevIndex,     *)
(* prevSrc).  Of the last call: the index it was given (arg), what it        *)
(* returned (returned), the 'playlistitemchange' events it emitted (emitted).*)

LoopModes == {"none", "one", "all"}

NoList ==
    [playlist |-> <<>>, playlistIndex |-> -1, playlistOriginalOrder |-> <<>>,
     playlistShuffle |-> FALSE, playlistLoop |-> "none", ops |-> 0, op |-> "new",
     before |-> <<>>, moved |-> FALSE, clean |-> FALSE, restored |-> FALSE,
     prevIndex |-> -1, prevSrc |-> NoSrc,
     arg |-> 0, returned |-> "none", emitted |-> <<>>]

\* Array.prototype.findIndex on item.src, as the code's index (-1: none)
FindIndex(items, src) ==
    IF \E i \in 1..Len(items) : items[i] = src
    THEN (CHOOSE i \in 1..Len(items) :
             items[i] = src /\ \A j \in 1..(i - 1) : items[j] # src) - 1
    ELSE -1

\* the orders a Fisher-Yates shuffle of n items can produce
ShuffleOrders(n) == {f \in [1..n -> 1..n] : \A i, j \in 1..n : f[i] = f[j] => i = j}

\* the element of a set of one element; {F(y) : y \in {e}} evaluates e once
The(S) == CHOOSE r \in S : TRUE

\* VideoPlayer.loadPlaylistItem
loadPlaylistItem(x, index) ==
    The({IF index < 0 \/ index >= Len(y.list.playlist) THEN y
         ELSE [player |-> loadSource(y.player, y.list.playlist[index + 1], "ok"),
               list |-> [y.list EXCEPT !.playlistIndex = index,
                                       !.emitted = Append(@, "playlistitemchange")]] :
         y \in {x}})

\* VideoPlayer.next
next(x) ==
    IF Len(x.list.playlist) > 0
    THEN loadPlaylistItem(x, (x.list.playlistIndex + 1) % Len(x.list.playlist))
    ELSE x

\* VideoPlayer.previous
previous(x) ==
    IF Len(x.list.playlist) > 0
    THEN loadPlaylistItem(x, (x.list.playlistIndex - 1 + Len(x.list.playlist))
                                 % Len(x.list.playlist))
    ELSE x

\* a shuffle that leaves the cursor where it was
shufflePlaylist_KeepIndex(x, perm) ==
    IF Len(x.list.playlist) = 0 THEN x
    ELSE [x EXCEPT !.list.playlistOriginalOrder =
                       IF @ = <<>> THEN x.list.playlist ELSE @,
                   !.list.playlist = [i \in 1..Len(@) |-> @[perm[i]]]]

\* VideoPlayer.shufflePlaylist; perm is the order the shuffle draws
shufflePlaylist(x, perm) ==
    LET p == x.list
        original == IF p.playlistOriginalOrder = <<>> THEN p.playlist
                    ELSE p.playlistOriginalOrder
        shuffled == [i \in 1..Len(p.playlist) |-> p.playlist[perm[i]]]
        found == IF p.playlistIndex >= 0 /\ p.playlistIndex < Len(original)
                 THEN FindIndex(shuffled, original[p.playlistIndex + 1])
                 ELSE -1
    IN  IF Len(p.playlist) = 0 THEN x
        ELSE [x EXCEPT !.list.playlistOriginalOrder = original,
                       !.list.playlist = shuffled,
                       !.list.playlistIndex = IF found = -1 THEN 0 ELSE found]

\* a restore that clears the shuffle but leaves the shuffled order in place
restorePlaylistOrder_Keep(x) ==
    IF Len(x.list.playlistOriginalOrder) > 0
    THEN [x EXCEPT !.list.playlistOriginalOrder = <<>>, !.list.playlistShuffle = FALSE]
    ELSE x

\* VideoPlayer.restorePlaylistOrder
restorePlaylistOrder(x) ==
    LET p == x.list
        found == FindIndex(p.playlistOriginalOrder, x.player.currentSrc)
    IN  IF Len(p.playlistOriginalOrder) > 0
        THEN [x EXCEPT !.list.playlist = p.playlistOriginalOrder,
                       !.list.playlistOriginalOrder = <<>>,
                       !.list.playlistShuffle = FALSE,
                       !.list.playlistIndex =
                           IF x.player.currentSrc = NoSrc THEN @
                           ELSE IF found = -1 THEN 0 ELSE found]
        ELSE x

\* VideoPlayer.setPlaylistShuffle
setPlaylistShuffle(x, enabled, perm) ==
    LET x1 == IF enabled /\ ~x.list.playlistShuffle THEN shufflePlaylist(x, perm)
              ELSE IF ~enabled /\ x.list.playlistShuffle THEN restorePlaylistOrder(x)
              ELSE x
    IN  [x1 EXCEPT !.list.playlistShuffle = enabled]

\* VideoPlayer.setPlaylist
setPlaylist(x, playlist, perm) ==
    LET x1 == [x EXCEPT !.list.playlist = playlist,
                        !.list.playlistIndex = IF Len(playlist) > 0 THEN 0 ELSE -1,
                        !.list.playlistOriginalOrder = <<>>]
        x2 == IF x1.list.playlistShuffle /\ Len(playlist) > 0
              THEN shufflePlaylist(x1, perm) ELSE x1
    IN  IF Len(playlist) > 0 THEN loadPlaylistItem(x2, 0) ELSE x2

\* a jump that reports success whatever the index
jumpToPlaylistItem_True(x, index) ==
    [loadPlaylistItem(x, index) EXCEPT !.list.returned = "true"]

\* VideoPlayer.jumpToPlaylistItem with a number
jumpToPlaylistItem(x, index) ==
    IF index < 0 \/ index >= Len(x.list.playlist)
    THEN [x EXCEPT !.list.returned = "false"]
    ELSE [loadPlaylistItem(x, index) EXCEPT !.list.returned = "true"]

\* VideoPlayer.addPlaylistItem
addPlaylistItem(x, item) ==
    LET x1 == [x EXCEPT !.list.playlist = Append(@, item)]
    IN  IF x1.list.playlistIndex = -1
        THEN loadPlaylistItem([x1 EXCEPT !.list.playlistIndex = 0], 0)
        ELSE x1

\* VideoPlayer.setPlaylistLoop
setPlaylistLoop(x, mode) == [x EXCEPT !.list.playlistLoop = mode]

\* a list loop that steps past the last item
handlePlaylistEnded_NoWrap(x) ==
    IF Len(x.list.playlist) = 0 THEN x
    ELSE IF x.list.playlistLoop = "one" THEN loadPlaylistItem(x, x.list.playlistIndex)
    ELSE IF x.list.playlistLoop = "all"
    THEN [loadPlaylistItem(x, x.list.playlistIndex + 1)
             EXCEPT !.list.playlistIndex = x.list.playlistIndex + 1]
    ELSE x

\* VideoPlayer.handlePlaylistEnded
handlePlaylistEnded(x) ==
    IF Len(x.list.playlist) = 0 THEN x
    ELSE IF x.list.playlistLoop = "one" THEN loadPlaylistItem(x, x.list.playlistIndex)
    ELSE IF x.list.playlistLoop = "all" THEN next(x)
    ELSE x

\* VideoPlayer.handleEngineEvent for "ended", called by the handler h that
\* setupEngineEvents registered
handleEnded(x, h) ==
    The({[y EXCEPT !.player = Emit(y.player, "ended", "fwd", h.gen)] :
            y \in {handlePlaylistEnded(x)}})

\* BasePlayerEngine.emit("ended"): forEach over the listener array as it was
RECURSIVE DispatchEnded(_, _)
DispatchEnded(x, hs) ==
    IF hs = <<>> THEN x
    ELSE The({DispatchEnded(y, Tail(hs)) : y \in {handleEnded(x, Head(hs))}})

\* Array.prototype.splice(index, 1), index as in the code
Splice(items, index) ==
    [i \in 1..(Len(items) - 1) |-> IF i <= index THEN items[i] ELSE items[i + 1]]

\* VideoPlayer.removePlaylistItem
removePlaylistItem(x, index) ==
    IF index < 0 \/ index >= Len(x.list.playlist) THEN x
    ELSE LET items == Splice(x.list.playlist, index)
             x1 == [x EXCEPT !.list.playlist = items,
                             !.list.playlistIndex =
                                 IF @ >= Len(items)
                                 THEN (IF Len(items) > 0 THEN 0 ELSE -1)
                                 ELSE @]
         IN  IF Len(items) > 0 /\ x1.list.playlistIndex >= 0
             THEN loadPlaylistItem(x1, x1.list.playlistIndex)
             ELSE x1

----------------------------------------------------------------------------
(* Playback statistics: stats, playStartTime, bufferingStartTime *)

\* playStartTime / bufferingStartTime when undefined
NoTime == -1

\* the four counters of PlaybackStats
Counters(st) ==
    [totalPlayTime |-> st.totalPlayTime, totalBufferingTime |-> st.totalBufferingTime,
     bufferingCount |-> st.bufferingCount, errorCount |-> st.errorCount]

\* the statistics of a new player; now is Date.now() in seconds, before the
\* counters as they were when the last step began
NoStats ==
    [totalPlayTime |-> 0, totalBufferingTime |-> 0, bufferingCount |-> 0,
     errorCount |-> 0, playStartTime |-> NoTime, bufferingStartTime |-> NoTime,
     now |-> 1, ops |-> 0, op |-> "new",
     before |-> [totalPlayTime |-> 0, totalBufferingTime |-> 0,
                 bufferingCount |-> 0, errorCount |-> 0]]

\* handleEngineEvent: the cases that keep the statistics
handleStatsEvent(st, event) ==
    CASE event = "play" -> [st EXCEPT !.playStartTime = st.now]
      [] event = "pause" ->
            IF st.playStartTime # NoTime
            THEN [st EXCEPT !.totalPlayTime = @ + (st.now - st.playStartTime),
                            !.playStartTime = NoTime]
            ELSE st
      [] event = "waiting" ->
            IF st.bufferingStartTime = NoTime
            THEN [st EXCEPT !.bufferingStartTime = st.now, !.bufferingCount = @ + 1]
            ELSE st
      [] event \in {"canplay", "canplaythrough"} ->
            IF st.bufferingStartTime # NoTime
            THEN [st EXCEPT !.totalBufferingTime = @ + (st.now - st.bufferingStartTime),
                            !.bufferingStartTime = NoTime]
            ELSE st
      [] event = "error" -> [st EXCEPT !.errorCount = @ + 1]
      [] OTHER -> st

\* updatePlaybackStats: totalPlayTime = (Date.now() - playStartTime) / 1000
updatePlaybackStats(st) ==
    IF st.playStartTime # NoTime
    THEN [st EXCEPT !.totalPlayTime = st.now - st.playStartTime]
    ELSE st

\* getPlaybackStats(): refreshes the play time, returns a copy of stats
getPlaybackStats(st) == updatePlaybackStats(st)

\* resetPlaybackStats()
resetPlaybackStats(st) ==
    [st EXCEPT !.totalPlayTime = 0, !.totalBufferingTime = 0, !.bufferingCount = 0,
               !.errorCount = 0, !.playStartTime = NoTime, !.bufferingStartTime = NoTime]

----------------------------------------------------------------------------
(* Network monitoring: networkInfo, networkChangeHandler *)

\* what getNetworkStatus() reads: navigator.onLine and navigator.connection
NetworkInfo(online, effectiveType, downlink, rtt, saveData) ==
    [online |-> online, effectiveType |-> effectiveType, downlink |-> downlink,
     rtt |-> rtt, saveData |-> saveData]

\* getNetworkStatus(): a copy of what the browser reports now
getNetworkStatus(n) == n.navigator

\* a player constructed on a 4g connection.  connection: navigator.connection
\* exists; registered: setupNetworkMonitoring added its listeners; adjusted:
\* the last step called adjustPreloadStrategy; out: what the last step emitted
NoNetwork ==
    [navigator |-> NetworkInfo(TRUE, "4g", 10, 50, FALSE),
     networkInfo |-> NetworkInfo(TRUE, "4g", 10, 50, FALSE),
     connection |-> FALSE, registered |-> FALSE, adjusted |-> FALSE,
     out |-> <<>>, op |-> "new", old |-> NetworkInfo(TRUE, "4g", 10, 50, FALSE)]

\* the constructor: networkInfo = getNetworkStatus(); setupNetworkMonitoring()
\* returns before registering anything when navigator.connection is missing
setupNetworkMonitoring(navigator, connection) ==
    [navigator |-> navigator, networkInfo |-> navigator, connection |-> connection,
     registered |-> connection, adjusted |-> FALSE, out |-> <<>>, op |-> "new",
     old |-> navigator]

\* networkChangeHandler, the listener of 'change', 'online' and 'offline'
networkChangeHandler(n) ==
    LET oldInfo == n.networkInfo
        info == getNetworkStatus(n)
        changed == \/ oldInfo.effectiveType # info.effectiveType
                   \/ oldInfo.saveData # info.saveData
    IN  [n EXCEPT !.networkInfo = info,
                  !.adjusted = changed,
                  !.out = IF changed THEN <<"networkchange">> ELSE <<>>]

\* the browser dispatches an event of the window or of navigator.connection
NetworkDispatch(n) == IF n.registered THEN networkChangeHandler(n) ELSE n

----------------------------------------------------------------------------
(* Quality selection: setQualityLevel *)

\* options.preferredQuality when the option is not given
NoPreference == -2

\* hls.currentLevel / the index given to setQualityFor: automatic
AutoLevel == -1

\* the object setQualityLevel reaches through the engine: the hls.js instance
\* of an HLS engine, the dash.js player of a DASH engine (kind "none": the
\* field is null).  auto: the library switches quality by itself; level: the
\* index it was told to use; autoSwitchSetter: the dash.js build offers
\* setAutoSwitchQualityFor
NoBackend == [kind |-> "none", auto |-> TRUE, level |-> AutoLevel]

\* the library object an engine has after load(src) ended as it did
Backend(kind, result, env) ==
    IF kind \in {"hls", "dash"} /\ result = "ok" /\ env = "ok"
    THEN [kind |-> kind, auto |-> TRUE, level |-> AutoLevel]
    ELSE NoBackend

\* no quality selection under observation.  calls: what the last step called
\* on the library object, in order; chosen: the last concrete index the
\* consumer gave to setQualityLevel
NoQuality ==
    [preferredQuality |-> NoPreference, backend |-> NoBackend,
     autoSwitchSetter |-> FALSE, calls |-> <<>>, emitted |-> FALSE, returned |-> FALSE,
     index |-> AutoLevel, chosen |-> NoPreference, sets |-> 0, loads |-> 0, op |-> "new"]

\* hls.js: the setter of currentLevel; a concrete level is a manual level
\* and ends automatic selection, -1 brings it back
HlsSetCurrentLevel(q, index) ==
    [q EXCEPT !.backend.level = index, !.backend.auto = (index = AutoLevel),
              !.calls = Append(@, "currentLevel")]

\* dashEngine.player.setAutoSwitchQualityFor?.("video", enabled)
DashSetAutoSwitch(q, enabled) ==
    IF q.autoSwitchSetter
    THEN [q EXCEPT !.backend.auto = enabled, !.calls = Append(@, "setAutoSwitchQualityFor")]
    ELSE q

\* dashEngine.player.setQualityFor("video", index)
DashSetQuality(q, index) ==
    [q EXCEPT !.backend.level = index, !.calls = Append(@, "setQualityFor")]

\* VideoPlayer.setQualityLevel
setQualityLevel(s, q, index) ==
    LET q1 == IF index >= 0 THEN [q EXCEPT !.preferredQuality = index] ELSE q
        done(q2) == [q2 EXCEPT !.emitted = TRUE, !.returned = TRUE]
    IN  IF s.engine = NoEngine THEN q
        ELSE IF s.currentFormat = "hls" /\ q1.backend.kind = "hls"
        THEN done(HlsSetCurrentLevel(q1, index))
        ELSE IF s.currentFormat = "dash" /\ q1.backend.kind = "dash"
        THEN done(IF index = AutoLevel THEN DashSetAutoSwitch(q1, TRUE)
                  ELSE DashSetQuality(DashSetAutoSwitch(q1, FALSE), index))
        ELSE q1

----------------------------------------------------------------------------
(* detectVideoFormat and PlayerEngineFactory.create as calls of their own *)

\* the values of the enum VideoFormat
VideoFormats == {"hls", "dash", "flv", "rtmp", "mp4", "webm", "ogg", "av1", "unknown"}

\* the extension table of the detector: the tags a lower-cased extension
\* stands for ({}: the extension is not in the table)
ExtensionTable(extension) ==
    CASE extension = "m3u8" -> {"hls"}
      [] extension = "mpd" -> {"dash"}
      [] extension = "flv" -> {"flv"}
      [] extension \in {"mp4", "m4v"} -> {"mp4", "av1"}
      [] extension = "webm" -> {"webm", "av1"}
      [] extension \in {"ogg", "ogv"} -> {"ogg"}
      [] OTHER -> {}

\* what a call of create ends with: an engine of a class, or an exception.
\* thrown names the exception: the error of the constructor of a class
\* ("hls", "dash", "flv", "native"), the new Error made around the message of
\* the FLV constructor's error ("wrapped"), the new Error for a locator that
\* cannot be translated ("rtmp"), the exception of detectVideoFormat ("detect")
Made(kind) == [engine |-> kind, thrown |-> "none"]
Thrown(error) == [engine |-> "none", thrown |-> error]

\* new NativePlayerEngine(video); failing: the classes whose constructor throws
NativeEngine(failing) ==
    IF "native" \in failing THEN Thrown("native") ELSE Made("native")

\* the try / catch around a specialised constructor with the catch block
\* rethrowing whatever fallbackToNative says
TryEngine_Rethrow(kind, failing, fallbackToNative, rethrown) ==
    IF kind \notin failing THEN Made(kind) ELSE Thrown(rethrown)

\* the try / catch around a specialised constructor: on an exception the
\* native engine if fallbackToNative, else the error given as rethrown
TryEngine(kind, failing, fallbackToNative, rethrown) ==
    IF kind \notin failing THEN Made(kind)
    ELSE IF fallbackToNative THEN NativeEngine(failing)
    ELSE Thrown(rethrown)

\* PlayerEngineFactory.create(video, src, {fallbackToNative})
create(src, failing, fallbackToNative) ==
    LET format == detectVideoFormat(src) IN
    CASE format = "throw" -> Thrown("detect")
      [] format = "hls" -> TryEngine("hls", failing, fallbackToNative, "hls")
      [] format = "dash" -> TryEngine("dash", failing, fallbackToNative, "dash")
      [] format = "flv" -> TryEngine("flv", failing, fallbackToNative, "flv")
      [] format = "rtmp" ->
           IF convertRTMPToHTTPFLV(src) # NoSrc
           THEN TryEngine("flv", failing, fallbackToNative, "wrapped")
           ELSE IF fallbackToNative THEN NativeEngine(failing)
           ELSE Thrown("rtmp")
      [] OTHER -> NativeEngine(failing)

\* no call under observation
NoFactory ==
    [src |-> NoSrc, failing |-> {}, fallbackToNative |-> TRUE, format |-> "none",
     engine |-> "none", thrown |-> "none", op |-> "new"]

----------------------------------------------------------------------------
(* Volume and playback rate.  A JavaScript number is a record: nan says it  *)
(* is NaN, x is its value in hundredths.                                    *)

Num(x) == [nan |-> FALSE, x |-> x]
NaN == [nan |-> TRUE, x |-> 0]

\* Math.min(a, b) and Math.max(a, b): NaN if an argument is NaN
MathMin(a, b) == IF a.nan \/ b.nan THEN NaN ELSE Num(Min(a.x, b.x))
MathMax(a, b) == IF a.nan \/ b.nan THEN NaN ELSE Num(Max(a.x, b.x))

\* the clamp without its limits
Clamp_Unbounded(lo, hi, v) == v

\* Math.max(lo, Math.min(hi, v))
Clamp(lo, hi, v) == MathMax(Num(lo), MathMin(Num(hi), v))

\* the video element of a new player: volume 1, playbackRate 1.  threw: the
\* last call ended with the TypeError of a non-finite assignment
NoAudio ==
    [volume |-> VolumeMax, playbackRate |-> 100, op |-> "new", arg |-> Num(0),
     threw |-> FALSE]

\* video.volume = v: a non-finite value is rejected with a TypeError
AssignVolume(a, v) ==
    IF v.nan THEN [a EXCEPT !.threw = TRUE] ELSE [a EXCEPT !.volume = v.x]

\* video.playbackRate = v
AssignPlaybackRate(a, v) ==
    IF v.nan THEN [a EXCEPT !.threw = TRUE] ELSE [a EXCEPT !.playbackRate = v.x]

\* engine.setVolume(volume), the same in the four engine classes
EngineSetVolume(a, volume) == AssignVolume(a, Clamp(VolumeMin, VolumeMax, volume))

\* engine.setPlaybackRate(rate)
EngineSetPlaybackRate(a, rate) == AssignPlaybackRate(a, Clamp(RateMin, RateMax, rate))

\* VideoPlayer.setVolume
setVolume(s, a, volume) ==
    IF s.engine = NoEngine
    THEN AssignVolume(a, Clamp(VolumeMin, VolumeMax, volume))
    ELSE EngineSetVolume(a, volume)

\* VideoPlayer.setPlaybackRate
setPlaybackRate(s, a, rate) ==
    IF s.engine = NoEngine
    THEN AssignPlaybackRate(a, Clamp(RateMin, RateMax, rate))
    ELSE EngineSetPlaybackRate(a, rate)

----------------------------------------------------------------------------
(* throttle(func, delay): the returned function and its trailing timer.     *)
(* since is Date.now() - lastCall, counted up to delay; timer is the        *)
(* pending setTimeout (remaining 0: due, its callback not yet run).         *)

NoTimer == [pending |-> FALSE, remaining |-> 0]

\* a throttle of a delay, just made: lastCall = 0.  invoked: the last step
\* called func; gap: the time since the call of func before that
Throttle(delay) ==
    [delay |-> delay, since |-> delay, timer |-> NoTimer, invoked |-> FALSE,
     gap |-> delay, invocations |-> 0, op |-> "new"]

NoThrottled == Throttle(0)

\* func(...args) is called
Invoke(th) ==
    [th EXCEPT !.invoked = TRUE, !.gap = th.since, !.since = 0,
               !.invocations = @ + 1]

\* the function returned by throttle, called
ThrottledFunction(th) ==
    LET timeSinceLastCall == th.since
    IN  IF timeSinceLastCall >= th.delay THEN Invoke(th)
        ELSE [th EXCEPT !.timer = [pending |-> TRUE,
                                   remaining |-> th.delay - timeSinceLastCall]]

\* the callback of the setTimeout: lastCall = Date.now(); func(...args)
ThrottleTimeout(th) == Invoke([th EXCEPT !.timer = NoTimer])

----------------------------------------------------------------------------
(* Construction *)

\* the fields before the constructor loads anything
Blank(o, b) ==
    [options |-> o, browser |-> b, engine |-> NoEngine, currentSrc |-> NoSrc,
     currentFormat |-> "none", retryCount |-> 0,
     engineEventHandlers |-> EmptyHandlers, engineEventsSetup |-> FALSE,
     eventListeners |-> {}, closures |-> FreshClosures, errorCount |-> 0,
     timers |-> <<>>, out |-> <<>>, step |-> [op |-> "new", load |-> "none", scheduled |-> FALSE],
     attempts |-> <<>>, calls |-> 0, requested |-> [src |-> NoSrc, ok |-> FALSE, allFailed |-> FALSE],
     destroyed |-> FALSE, gen |-> 0, engines |-> 0, win |-> NoWindow]

\* the consumer's call of loadSource, with the bookkeeping of the model
Requested(s, src, env) ==
    LET s1 == loadSource([s EXCEPT !.attempts = <<>>, !.calls = @ + 1,
                                   !.requested = [src |-> ActualSrc(s, src), ok |-> FALSE,
                                                  allFailed |-> TRUE]],
                         src, env)
    IN  [s1 EXCEPT !.requested.ok = s1.step.load = "ok"]

\* new VideoPlayer(options): options.src is loaded, then setupEngineEvents runs
Construct(o, b, src, env) ==
    IF src = NoSrc THEN Blank(o, b)
    ELSE setupEngineEvents(Requested(Blank(o, b), src, env))

Holds(s) ==
    /\ options = s.options
    /\ browser = s.browser
    /\ engine = s.engine
    /\ currentSrc = s.currentSrc
    /\ currentFormat = s.currentFormat
    /\ retryCount = s.retryCount
    /\ engineEventHandlers = s.engineEventHandlers
    /\ engineEventsSetup = s.engineEventsSetup
    /\ eventListeners = s.eventListeners
    /\ closures = s.closures
    /\ errorCount = s.errorCount
    /\ timers = s.timers
    /\ out = s.out
    /\ step = s.step
    /\ attempts = s.attempts
    /\ calls = s.calls
    /\ requested = s.requested
    /\ destroyed = s.destroyed
    /\ gen = s.gen
    /\ engines = s.engines
    /\ win = s.win

Init ==
    /\ \E o \in OptionSet, b \in Browsers, src \in UserSrcs \cup {NoSrc}, env \in Envs :
          Holds(Construct(o, b, src, env))
    /\ flv = NoFlv
    /\ hls = NoHls
    /\ media = NoMedia
    /\ surface = NoSurface
    /\ list = NoList
    /\ stats = NoStats
    /\ network = NoNetwork
    /\ quality = NoQuality
    /\ factory = NoFactory
    /\ audio = NoAudio
    /\ throttled = NoThrottled
    /\ isPictureInPicture = FALSE

----------------------------------------------------------------------------
(* Steps *)

\* the consumer registers callbacks with on()
Subscribe ==
    /\ ~destroyed
    /\ eventListeners = {}
    /\ Becomes([Begin("on") EXCEPT !.eventListeners = EventSet])

\* the consumer calls loadSource(src)
CallLoadSource ==
    /\ ~destroyed
    /\ calls < MaxCalls
    /\ \E src \in UserSrcs, env \in Envs :
          Becomes(Requested(Begin("loadSource"), src, env))

\* time passes
Advance(s, dt) ==
    [s EXCEPT
       !.timers = [i \in 1..Len(@) |-> [@[i] EXCEPT !.remaining = Max(0, @ - dt)]],
       !.closures = [timeupdate |-> [since |-> Min(TimeUpdateDelay, @.timeupdate.since + dt)],
                     seeking |-> [since |-> Min(SeekingDelay, @.seeking.since + dt)]],
       !.win.age = Min(TimeUpdateDelay, @ + dt)]

\* the delay after which the next pending timer is due
RECURSIVE NextDue(_)
NextDue(ts) ==
    IF Len(ts) = 1 THEN ts[1].remaining
    ELSE Min(ts[1].remaining, NextDue(Tail(ts)))

\* time passes until the next timer is due; a timer that is due runs first
Tick ==
    /\ timers # <<>>
    /\ NextDue(timers) > 0
    /\ Becomes(Advance(Begin("tick"), NextDue(timers)))

\* the callback of loadWithRetry's first setTimeout runs: loadSource(fallback.src)
FireFallback ==
    \E i \in 1..Len(timers), env \in Envs :
        /\ timers[i].kind = "fallback"
        /\ timers[i].remaining = 0
        /\ Becomes(loadSource([Begin("timer") EXCEPT !.timers = RemoveAt(@, i)],
                              timers[i].src, env))

\* the callback of loadWithRetry's second setTimeout runs: loadWithRetry(src)
FireRetry ==
    \E i \in 1..Len(timers), env \in Envs :
        /\ timers[i].kind = "retry"
        /\ timers[i].remaining = 0
        /\ Becomes(loadWithRetry([Begin("timer") EXCEPT !.timers = RemoveAt(@, i)],
                                 timers[i].src, env))

\* the engine raises 'error' after a load
EngineError ==
    /\ engine # NoEngine
    /\ engine.loaded # NoSrc
    /\ errorCount < MaxEngineErrors
    /\ Becomes(EngineEmit(Begin("engineError"), "error"))

\* the consumer calls destroy()
Destroy ==
    /\ ~destroyed
    /\ Becomes(destroyPlayer(Begin("destroy")))

Next ==
    \/ Subscribe
    \/ CallLoadSource
    \/ Tick
    \/ FireFallback
    \/ FireRetry
    \/ EngineError
    \/ Destroy

Spec == Init /\ [][Next]_vars

----------------------------------------------------------------------------
(* The event feed: the engine raises the coalesced events while the player  *)
(* plays, time passes in steps of 50 ms, and the consumer reloads.          *)

\* the events setupEngineEvents throttles or debounces
CoalescedEvents == {"timeupdate", "volumechange", "seeking"}

\* what the engine raises during one playback: a throttled and the debounced class
Feeds == {CoalescedEvents \ {"seeking"}, CoalescedEvents \ {"timeupdate"}}

\* a timer of throttle() / debounce() has run out and its callback is next
DueEventTimer(s) == \E i \in 1..Len(s.timers) :
    s.timers[i].kind \in {"throttle", "debounce"} /\ s.timers[i].remaining = 0

\* the trailing call of the current subscription's timeupdate throttle is pending
TrailingPending(s) == \E i \in 1..Len(s.timers) :
    /\ s.timers[i].kind = "throttle"
    /\ s.timers[i].ev = "timeupdate"
    /\ s.timers[i].gen = s.gen

\* 250 ms have passed since the first raw timeupdate of the window and nothing
\* of it is pending
WindowOver(s) == s.win.age >= TimeUpdateDelay /\ ~TrailingPending(s)

\* bookkeeping: a raw event is counted in its window
Counted(s, ev) ==
    IF ev # "timeupdate" \/ "timeupdate" \notin s.eventListeners THEN s
    ELSE IF WindowOver(s)
    THEN [s EXCEPT !.win.raw = 1, !.win.emitted = 0, !.win.seen = 0, !.win.age = 0,
                   !.win.gen = s.gen]
    ELSE [s EXCEPT !.win.raw = @ + 1]

\* bookkeeping: the timeupdate emissions of the step, made by the current
\* subscription, are counted in the window; they carry the latest raw event
Observed(s) ==
    LET n == Len(SelectSeq(s.out, LAMBDA e : e.ev = "timeupdate" /\ e.gen = s.gen))
    IN  IF n = 0 THEN s
        ELSE [s EXCEPT !.win.emitted = @ + n, !.win.seen = s.win.raw]

\* bookkeeping: the consumer is owed a coalesced emission for the raw event
Owed(s, ev) ==
    IF ev \in s.eventListeners THEN [s EXCEPT !.win.owed = @ \cup {ev}] ELSE s

\* bookkeeping: a throttled or debounced emission of the step settles what is owed
Settled(s) ==
    [s EXCEPT !.win.owed =
        @ \ {s.out[i].ev : i \in {j \in 1..Len(s.out) :
                                     s.out[j].via \in {"throttle", "debounce"}}}]

\* the player as constructed for a playable source
EvtOptions == [maxRetries |-> DefaultMaxRetries, fallbackSources |-> <<>>,
               autoSelectBestFormat |-> FALSE]

EvtInit ==
    /\ \E b \in Browsers, f \in Feeds :
          Holds([Construct(EvtOptions, b, LocMp4, "ok") EXCEPT !.win.feed = f])
    /\ flv = NoFlv
    /\ hls = NoHls
    /\ media = NoMedia
    /\ surface = NoSurface
    /\ list = NoList
    /\ stats = NoStats
    /\ network = NoNetwork
    /\ quality = NoQuality
    /\ factory = NoFactory
    /\ audio = NoAudio
    /\ throttled = NoThrottled
    /\ isPictureInPicture = FALSE

\* the engine raises one of the events of its feed
RawEvent ==
    /\ engine.loaded # NoSrc
    /\ ~DueEventTimer(State)
    /\ \E ev \in win.feed :
          /\ (ev = "timeupdate" /\ ~WindowOver(State)) => win.raw < MaxRaw
          /\ Becomes(Settled(Observed(EngineEmit(Owed(Counted(Begin("raw"), ev), ev), ev))))

\* time passes; a timer that has run out fires before more time passes
Wait(dt) ==
    /\ ~DueEventTimer(State)
    /\ Advance(State, dt) # State
    /\ Becomes(Advance(Begin("tick"), dt))

\* throttle's setTimeout callback runs: lastCall = Date.now(); func(...args)
FireThrottle ==
    \E i \in 1..Len(timers) :
        /\ timers[i].kind = "throttle"
        /\ timers[i].remaining = 0
        /\ LET t == timers[i]
               s0 == [Begin("timer") EXCEPT !.timers = RemoveAt(@, i)]
               s1 == IF t.gen = s0.gen THEN [s0 EXCEPT !.closures[t.ev].since = 0] ELSE s0
           IN  Becomes(Settled(Observed(Emit(s1, t.ev, "throttle", t.gen))))

\* debounce's setTimeout callback runs: func(...args)
FireDebounce ==
    \E i \in 1..Len(timers) :
        /\ timers[i].kind = "debounce"
        /\ timers[i].remaining = 0
        /\ Becomes(Settled(Emit([Begin("timer") EXCEPT !.timers = RemoveAt(@, i)],
                                timers[i].ev, "debounce", timers[i].gen)))

\* the consumer loads another playable source: the engine is subscribed anew
Reload ==
    /\ calls <= MaxReloads
    /\ ~DueEventTimer(State)
    /\ \E src \in {LocMp4, LocHls} :
          Becomes(Requested(Begin("loadSource"), src, "ok"))

NextEvt ==
    \/ Subscribe
    \/ RawEvent
    \/ Wait(50)
    \/ FireThrottle
    \/ FireDebounce
    \/ Reload

SpecEvt == EvtInit /\ [][NextEvt]_vars

----------------------------------------------------------------------------
(* The FLV engine on its own: flv.js raises signals, the reconnect timer    *)
(* fires, the owner calls reconnect() and destroy().                        *)

\* a step of the engine starts with nothing emitted
FlvBegin(op) == [flv EXCEPT !.out = <<>>, !.exhausted = FALSE, !.op = op]

\* the player around the engine stands still
FlvOnly == UNCHANGED <<options, browser, engine, currentSrc, currentFormat, retryCount,
                       engineEventHandlers, engineEventsSetup, eventListeners, closures,
                       errorCount, timers, out, step, attempts, calls, requested,
                       destroyed, gen, engines, win, hls, media, surface, list,
          stats, network, quality, factory, audio, throttled, isPictureInPicture>>

\* config.maxReconnectAttempts as drawn here
ReconnectLimits == {1, 2}

\* new FLVPlayerEngine(video, config), then load(src) with flv.js present
FlvInit ==
    /\ Holds(Blank(EvtOptions, Chrome))
    /\ \E a \in BOOLEAN, m \in ReconnectLimits :
          flv = [FlvLoad(FlvEngine(a, m), "ok") EXCEPT !.out = <<>>]
    /\ hls = NoHls
    /\ media = NoMedia
    /\ surface = NoSurface
    /\ list = NoList
    /\ stats = NoStats
    /\ network = NoNetwork
    /\ quality = NoQuality
    /\ factory = NoFactory
    /\ audio = NoAudio
    /\ throttled = NoThrottled
    /\ isPictureInPicture = FALSE

\* flv.js reports a lost connection: NETWORK_STATUS with networkState 3, or
\* ERROR with a network error type
FlvLoss ==
    /\ flv.player
    /\ flv.losses < MaxLosses
    /\ LET f == [FlvBegin("loss") EXCEPT !.losses = @ + 1, !.streak = @ + 1]
       IN  \/ flv' = handleNetworkStatus(f, 3)
           \/ flv' = handleError(f, "NetworkError")
    /\ FlvOnly

\* flv.js reports that data flows: LOADING_COMPLETE, MEDIA_INFO or
\* NETWORK_STATUS with networkState 1
FlvSuccess ==
    /\ flv.player
    /\ LET f == [FlvBegin("success") EXCEPT !.streak = 0, !.sched = 0]
       IN  \/ flv' = FlvStatus([f EXCEPT !.reconnectCount = 0], "connected")
           \/ flv' = FlvStatus(f, "connected")
           \/ flv' = handleNetworkStatus(f, 1)
    /\ FlvOnly

\* flv.js reports NETWORK_STATUS with networkState 2 (loading)
FlvLoading ==
    /\ flv.player
    /\ flv' = handleNetworkStatus(FlvBegin("loading"), 2)
    /\ FlvOnly

\* flv.js reports an error that is not a network error
FlvMediaError ==
    /\ flv.player
    /\ flv' = handleError(FlvBegin("error"), "MediaError")
    /\ FlvOnly

\* the reconnect timer fires
FlvReconnect ==
    /\ flv.reconnectTimer
    /\ flv.reloads < MaxFlvReloads
    /\ \E env \in Envs : flv' = FlvReconnectTimer(FlvBegin("timer"), env)
    /\ FlvOnly

\* the owner calls reconnect()
FlvManual ==
    /\ ~flv.destroyed
    /\ flv.manual < MaxManual
    /\ flv' = reconnect([FlvBegin("reconnect") EXCEPT !.manual = @ + 1, !.streak = 0, !.sched = 0])
    /\ FlvOnly

\* the owner calls destroy()
FlvDestroy ==
    /\ ~flv.destroyed
    /\ flv' = FlvDestroyed(FlvBegin("destroy"))
    /\ FlvOnly

NextFlv ==
    \/ FlvLoss
    \/ FlvSuccess
    \/ FlvLoading
    \/ FlvMediaError
    \/ FlvReconnect
    \/ FlvManual
    \/ FlvDestroy

SpecFlv == FlvInit /\ [][NextFlv]_vars

----------------------------------------------------------------------------
(* The HLS engine on its own: hls.js raises MANIFEST_PARSED and ERROR, the  *)
(* owner loads again and destroys.                                          *)

HlsBegin(op) == [hls EXCEPT !.out = <<>>, !.op = op, !.threw = FALSE, !.type = "none"]

\* the player and the FLV engine stand still
HlsOnly == UNCHANGED <<options, browser, engine, currentSrc, currentFormat, retryCount,
                       engineEventHandlers, engineEventsSetup, eventListeners, closures,
                       errorCount, timers, out, step, attempts, calls, requested,
                       destroyed, gen, engines, win, flv, media, surface, list,
          stats, network, quality, factory, audio, throttled, isPictureInPicture>>

\* new HLSPlayerEngine(video), then load(src)
HlsInit ==
    /\ \E b \in Browsers : Holds(Blank(EvtOptions, b))
    /\ flv = NoFlv
    /\ \E env \in Envs : hls = HlsLoad(NoHls, env, browser)
    /\ media = NoMedia
    /\ surface = NoSurface
    /\ list = NoList
    /\ stats = NoStats
    /\ network = NoNetwork
    /\ quality = NoQuality
    /\ factory = NoFactory
    /\ audio = NoAudio
    /\ throttled = NoThrottled
    /\ isPictureInPicture = FALSE

\* the owner calls load(src) again
HlsReload ==
    /\ ~hls.destroyed
    /\ hls.loads < MaxHlsLoads
    /\ \E env \in Envs : hls' = HlsLoad(HlsBegin("load"), env, browser)
    /\ HlsOnly

\* hls.js parsed the manifest
HlsParsed ==
    /\ hls.instance = "live"
    /\ hls' = HlsManifestParsed(HlsBegin("parsed"))
    /\ HlsOnly

\* hls.js raises a fatal error
HlsFatal ==
    /\ hls.instance = "live"
    /\ hls.fatals < MaxFatals
    /\ \E type \in FatalTypes :
          hls' = HlsErrorHandler([HlsBegin("fatal") EXCEPT !.fatals = @ + 1, !.type = type,
                                                           !.streak[type] = @ + 1],
                                 TRUE, type)
    /\ HlsOnly

\* hls.js raises an error that is not fatal
HlsNonFatal ==
    /\ hls.instance = "live"
    /\ \E type \in FatalTypes : hls' = HlsErrorHandler(HlsBegin("nonfatal"), FALSE, type)
    /\ HlsOnly

\* the owner calls destroy()
HlsDestroy ==
    /\ ~hls.destroyed
    /\ hls' = HlsDestroyed(HlsBegin("destroy"))
    /\ HlsOnly

NextHls ==
    \/ HlsReload
    \/ HlsParsed
    \/ HlsFatal
    \/ HlsNonFatal
    \/ HlsDestroy

SpecHls == HlsInit /\ [][NextHls]_vars

----------------------------------------------------------------------------
(* Playback history: the video plays, the interval saves the position, the  *)
(* consumer calls destroy() more than once.                                  *)

\* everything of the player stays, the engines on their own stand still
MediaOnly == UNCHANGED <<options, browser, engine, currentSrc, currentFormat, retryCount,
                         engineEventHandlers, engineEventsSetup, eventListeners, closures,
                         errorCount, timers, out, step, attempts, calls, requested,
                         destroyed, gen, engines, win, flv, hls, surface, list,
          stats, network, quality, factory, audio, throttled, isPictureInPicture>>

\* what StorageManager holds for the locator when the page opens: nothing,
\* a position below the restore threshold, one above it
StoredPositions == {NoPosition, 3, 7}

\* a step of the history starts
HistBegin(op) == [media EXCEPT !.op = op]

\* new VideoPlayer({src, enablePlaybackHistory})
HistInit ==
    /\ \E b \in Browsers, src \in {LocMp4, LocHls, NoSrc} :
          Holds(Construct(EvtOptions, b, src, "ok"))
    /\ flv = NoFlv
    /\ hls = NoHls
    /\ \E h \in BOOLEAN, stored \in StoredPositions : media = Media(h, stored)
    /\ surface = NoSurface
    /\ list = NoList
    /\ stats = NoStats
    /\ network = NoNetwork
    /\ quality = NoQuality
    /\ factory = NoFactory
    /\ audio = NoAudio
    /\ throttled = NoThrottled
    /\ isPictureInPicture = FALSE

\* the video element learns the length of the video and the engine raises
\* "loadedmetadata", which the forwarding handler passes to handleEngineEvent
HistMetadata ==
    /\ engine # NoEngine
    /\ media.duration = 0
    /\ LET m == [HistBegin("metadata") EXCEPT !.duration = MaxTime]
       IN  media' = IF engine.listeners["loadedmetadata"] # <<>>
                    THEN handleLoadedMetadata(State, m) ELSE m
    /\ MediaOnly

\* the video plays or is sought: the clock moves
HistPlay ==
    /\ engine # NoEngine
    /\ media.duration > 0
    /\ \E pos \in 0..media.duration :
          /\ pos # media.currentTime
          /\ media' = [HistBegin("play") EXCEPT !.currentTime = pos]
    /\ MediaOnly

\* the interval of startPositionSaving fires
HistInterval ==
    /\ media.positionSaveTimer
    /\ media' = savePlaybackPosition(State,
                    [HistBegin("save") EXCEPT !.at = [position |-> media.currentTime,
                                                      duration |-> media.duration]])
    /\ MediaOnly

\* a timer of restorePlaybackPosition fires: seek(position), then
\* emit("playbackrestored")
HistRestore ==
    /\ \E r \in media.restoring :
          media' = seek([HistBegin("restore") EXCEPT !.restoring = @ \ {r}], r.position)
    /\ PlayerBecomes(Emit(Begin("restore"), "playbackrestored", "direct", 0))
    /\ UNCHANGED <<flv, hls, surface, list,
          stats, network, quality, factory, audio, throttled, isPictureInPicture>>

\* the consumer loads another locator, for which StorageManager holds stored
HistSwitch ==
    /\ media.destroys = 0
    /\ media.loads < MaxHistLoads
    /\ currentSrc \notin {NoSrc, LocFlv}
    /\ PlayerBecomes(loadSource([Begin("load") EXCEPT !.attempts = <<>>], LocFlv, "ok"))
    /\ UNCHANGED <<flv, hls, surface, list,
          stats, network, quality, factory, audio, throttled, isPictureInPicture>>
    /\ \E stored \in StoredPositions :
          media' = [HistBegin("switch") EXCEPT !.loads = @ + 1, !.currentTime = 0,
                                               !.duration = 0, !.history = stored,
                                               !.left = stored]

\* the consumer loads the same locator again
HistLoad ==
    /\ media.destroys = 0
    /\ media.loads < MaxHistLoads
    /\ currentSrc # NoSrc
    /\ PlayerBecomes(loadSource([Begin("load") EXCEPT !.attempts = <<>>], currentSrc, "ok"))
    /\ UNCHANGED <<flv, hls, surface, list,
          stats, network, quality, factory, audio, throttled, isPictureInPicture>>
    /\ media' = [HistBegin("load") EXCEPT !.loads = @ + 1, !.currentTime = 0,
                                          !.duration = 0, !.left = media.history]

\* the consumer calls destroy()
HistDestroy ==
    /\ media.destroys < MaxDestroys
    /\ PlayerBecomes(destroyPlayer(Begin("destroy")))
    /\ UNCHANGED <<flv, hls, surface, list,
          stats, network, quality, factory, audio, throttled, isPictureInPicture>>
    /\ LET m == destroyMedia(State, HistBegin("destroy"))
       IN  media' = [m EXCEPT !.destroys = @ + 1,
                              !.kept = IF media.destroys = 0 THEN m.history ELSE @]

NextHist ==
    \/ HistRestore
    \/ HistLoad
    \/ HistSwitch
    \/ HistMetadata
    \/ HistPlay
    \/ HistInterval
    \/ HistDestroy

SpecHist == HistInit /\ [][NextHist]_vars

----------------------------------------------------------------------------
(* Engines on one video element: the owner subscribes, replaces the engine  *)
(* as loadSource does on a format change, destroys it, builds a new one.     *)

SurfaceBegin(op) == [surface EXCEPT !.ran = <<>>, !.delivered = <<>>, !.op = op]

SurfaceOnly == UNCHANGED <<options, browser, engine, currentSrc, currentFormat, retryCount,
                           engineEventHandlers, engineEventsSetup, eventListeners, closures,
                           errorCount, timers, out, step, attempts, calls, requested,
                           destroyed, gen, engines, win, flv, hls, media, list,
          stats, network, quality, factory, audio, throttled, isPictureInPicture>>

\* events the owner subscribes to here
SubscribedEvents == {"timeupdate", "error"}

SurfaceInit ==
    /\ Holds(Blank(EvtOptions, Chrome))
    /\ flv = NoFlv
    /\ hls = NoHls
    /\ media = NoMedia
    /\ \E kind \in EngineKinds : surface = SurfaceNewEngine(NoSurface, kind)
    /\ list = NoList
    /\ stats = NoStats
    /\ network = NoNetwork
    /\ quality = NoQuality
    /\ factory = NoFactory
    /\ audio = NoAudio
    /\ throttled = NoThrottled
    /\ isPictureInPicture = FALSE

\* engine.on(event, callback)
SurfaceOn ==
    /\ SurfaceLive(surface)
    /\ \E event \in SubscribedEvents :
          surface' = [SurfaceBegin("on") EXCEPT
                         !.engines[Len(surface.engines)].eventListeners = @ \cup {event}]
    /\ SurfaceOnly

\* engine.destroy()
SurfaceDestroy ==
    /\ SurfaceLive(surface)
    /\ surface' = SurfaceEngineDestroyed(SurfaceBegin("destroy"))
    /\ SurfaceOnly

\* PlayerEngineFactory.create on the element after the engine was destroyed
SurfaceCreate ==
    /\ ~SurfaceLive(surface)
    /\ Len(surface.engines) < MaxEngines
    /\ \E kind \in EngineKinds : surface' = SurfaceNewEngine(SurfaceBegin("create"), kind)
    /\ SurfaceOnly

\* loadSource on a format change: this.engine.destroy(), then create
SurfaceReplace ==
    /\ SurfaceLive(surface)
    /\ Len(surface.engines) < MaxEngines
    /\ \E kind \in EngineKinds :
          surface' = SurfaceNewEngine(SurfaceEngineDestroyed(SurfaceBegin("replace")), kind)
    /\ SurfaceOnly

\* the video element raises an event
SurfaceDispatch ==
    /\ surface.engines # <<>>
    /\ \E event \in SubscribedEvents : surface' = SurfaceRaised(SurfaceBegin("event"), event)
    /\ SurfaceOnly

NextSurface ==
    \/ SurfaceOn
    \/ SurfaceDestroy
    \/ SurfaceCreate
    \/ SurfaceReplace
    \/ SurfaceDispatch

SpecSurface == SurfaceInit /\ [][NextSurface]_vars

----------------------------------------------------------------------------
(* The playlist: construction with options.src / options.playlist /         *)
(* options.playlistShuffle, then the playlist methods in any order.          *)

\* the src of playlist items
Items == {LocMp4, LocHls}

\* lists of items of a length
ListsOf(n) == [1..n -> Items]

\* lengths of the lists handed to the constructor and to setPlaylist
GivenLengths == {0, 1, 2}

\* lists handed to the constructor and to setPlaylist
GivenLists == UNION {ListsOf(n) : n \in GivenLengths}

\* options.src: absent, one locator, or an array of locators
SrcOptions ==
    {[array |-> FALSE, items |-> <<>>]}
    \cup {[array |-> FALSE, items |-> <<src>>] : src \in Items}
    \cup {[array |-> TRUE, items |-> l] : l \in GivenLists}

\* the constructor: "if (options.src)"
ConstructSrc(x, src) ==
    IF src.array
    THEN IF Len(src.items) > 0
         THEN [player |-> loadSource(x.player, src.items[1], "ok"),
               list |-> [x.list EXCEPT !.playlist = src.items, !.playlistIndex = 0]]
         ELSE [x EXCEPT !.list.playlist = src.items, !.list.playlistIndex = 0]
    ELSE IF src.items # <<>>
    THEN [x EXCEPT !.player = loadSource(x.player, src.items[1], "ok")]
    ELSE x

\* the constructor: "if (options.playlist && options.playlist.length > 0)"
ConstructPlaylist(x, playlist) ==
    IF Len(playlist) > 0
    THEN loadPlaylistItem([x EXCEPT !.list.playlist = playlist,
                                    !.list.playlistIndex = 0], 0)
    ELSE x

\* the constructor: playlistLoop, playlistShuffle, then setupEngineEvents;
\* with the bookkeeping of the shuffle
ConstructShuffle(x, loop, shuffle, perm) ==
    LET x1 == [x EXCEPT !.list.playlistShuffle = shuffle, !.list.playlistLoop = loop]
        x2 == IF shuffle /\ Len(x.list.playlist) > 0
              THEN shufflePlaylist(x1, perm) ELSE x1
    IN  [player |-> setupEngineEvents(x.player),
         list |-> [x2.list EXCEPT !.before = x.list.playlist,
                                  !.clean = shuffle /\ Len(x.list.playlist) > 0,
                                  !.moved = x2.list.playlist # x.list.playlist]]

\* new VideoPlayer({src, playlist, playlistLoop, playlistShuffle})
ConstructWithPlaylist(b, src, playlist, loop, shuffle, perm) ==
    The({ConstructShuffle(x2, loop, shuffle, perm) :
            x2 \in {ConstructPlaylist(x1, playlist) :
                       x1 \in {ConstructSrc(x0, src) :
                                  x0 \in {[player |-> Blank(EvtOptions, b),
                                           list |-> NoList]}}}})

\* the player and the playlist become those of x
ListBecomes(x) ==
    /\ PlayerBecomes(x.player)
    /\ list' = x.list
    /\ UNCHANGED <<flv, hls, media, surface, stats, network, quality, factory, audio, throttled, isPictureInPicture>>

\* a playlist method starts: nothing emitted, the load bookkeeping reset
ListBegin(op) ==
    [player |-> [Begin(op) EXCEPT !.attempts = <<>>],
     list |-> [list EXCEPT !.ops = @ + 1, !.op = op, !.restored = FALSE,
                           !.prevIndex = list.playlistIndex, !.prevSrc = currentSrc,
                           !.arg = 0, !.returned = "none", !.emitted = <<>>]]

\* what a call does to the order: nothing, an edit of the items, a shuffle
\* of the list it names, or a restore
NoNote == [kind |-> "none", before |-> <<>>]
EditNote == [kind |-> "edit", before |-> <<>>]
RestoreNote == [kind |-> "restore", before |-> <<>>]
ShuffleNote(playlist) == [kind |-> "shuffle", before |-> playlist]

\* the bookkeeping of a call that took x to y
Noted(x, y, note) ==
    CASE note.kind = "shuffle" ->
           [y EXCEPT !.list.before = note.before, !.list.clean = TRUE,
                     !.list.moved = y.list.playlist # note.before]
      [] note.kind = "edit" -> [y EXCEPT !.list.clean = FALSE]
      [] note.kind = "restore" ->
           [y EXCEPT !.list.restored = x.list.clean, !.list.clean = FALSE]
      [] OTHER -> y

\* the consumer calls the playlist method Method
ListCall(op, Method(_), note) ==
    \E x \in {ListBegin(op)} : \E y \in {Noted(x, Method(x), note)} : ListBecomes(y)

\* the consumer calls the playlist method Method with the index index
ListCallAt(op, index, Method(_), note) ==
    \E x \in {[ListBegin(op) EXCEPT !.list.arg = index]} :
       \E y \in {Noted(x, Method(x), note)} : ListBecomes(y)

ListInit ==
    /\ flv = NoFlv
    /\ hls = NoHls
    /\ media = NoMedia
    /\ surface = NoSurface
    /\ stats = NoStats
    /\ network = NoNetwork
    /\ quality = NoQuality
    /\ factory = NoFactory
    /\ audio = NoAudio
    /\ throttled = NoThrottled
    /\ isPictureInPicture = FALSE
    /\ \E b \in Browsers, src \in SrcOptions, playlist \in GivenLists,
          loop \in LoopModes, shuffle \in BOOLEAN :
          LET n == IF Len(playlist) > 0 THEN Len(playlist) ELSE
                   IF src.array THEN Len(src.items) ELSE 0
          IN  \E perm \in ShuffleOrders(n) :
                 \E x \in {ConstructWithPlaylist(b, src, playlist, loop, shuffle, perm)} :
                    Holds(x.player) /\ list = x.list

ListSet ==
    /\ list.ops < MaxListOps
    /\ \E playlist \in GivenLists : \E perm \in ShuffleOrders(Len(playlist)) :
          ListCall("setPlaylist", LAMBDA x : setPlaylist(x, playlist, perm),
                   IF list.playlistShuffle /\ Len(playlist) > 0
                   THEN ShuffleNote(playlist) ELSE EditNote)

ListAdd ==
    /\ list.ops < MaxListOps
    /\ Len(list.playlist) < MaxItems
    /\ \E item \in Items : ListCall("addPlaylistItem", LAMBDA x : addPlaylistItem(x, item), EditNote)

ListRemove ==
    /\ list.ops < MaxListOps
    /\ \E index \in -1..Len(list.playlist) :
          ListCallAt("removePlaylistItem", index,
                     LAMBDA x : removePlaylistItem(x, index),
                     IF 0 <= index /\ index < Len(list.playlist) THEN EditNote ELSE NoNote)

ListNext ==
    /\ list.ops < MaxListOps
    /\ ListCall("next", next, NoNote)

ListPrevious ==
    /\ list.ops < MaxListOps
    /\ ListCall("previous", previous, NoNote)

ListJump ==
    /\ list.ops < MaxListOps
    /\ \E index \in -1..Len(list.playlist) :
          ListCallAt("jumpToPlaylistItem", index,
                     LAMBDA x : jumpToPlaylistItem(x, index), NoNote)

\* the consumer calls loadPlaylistItem(index)
ListLoadItem ==
    /\ list.ops < MaxListOps
    /\ \E index \in -1..Len(list.playlist) :
          ListCallAt("loadPlaylistItem", index,
                     LAMBDA x : loadPlaylistItem(x, index), NoNote)

ListShuffle ==
    /\ list.ops < MaxListOps
    /\ \E enabled \in BOOLEAN : \E perm \in ShuffleOrders(Len(list.playlist)) :
          ListCall("setPlaylistShuffle", LAMBDA x : setPlaylistShuffle(x, enabled, perm),
                   IF ~enabled THEN RestoreNote
                   ELSE IF ~list.playlistShuffle /\ Len(list.playlist) > 0
                   THEN ShuffleNote(list.playlist) ELSE NoNote)

ListRestore ==
    /\ list.ops < MaxListOps
    /\ ListCall("restorePlaylistOrder", restorePlaylistOrder, RestoreNote)

\* the consumer calls setPlaylistLoop(mode)
ListLoop ==
    /\ list.ops < MaxListOps
    /\ \E mode \in LoopModes \ {list.playlistLoop} :
          ListCall("setPlaylistLoop", LAMBDA x : setPlaylistLoop(x, mode), NoNote)

\* the engine raises "ended"
ListEnded ==
    /\ list.ops < MaxListOps
    /\ engine # NoEngine
    /\ ListCall("ended", LAMBDA x : DispatchEnded(x, x.player.engine.listeners["ended"]),
                NoNote)

NextList ==
    \/ ListLoop
    \/ ListEnded
    \/ ListSet
    \/ ListAdd
    \/ ListRemove
    \/ ListNext
    \/ ListPrevious
    \/ ListJump
    \/ ListLoadItem
    \/ ListShuffle
    \/ ListRestore

SpecList == ListInit /\ [][NextList]_vars

----------------------------------------------------------------------------
(* Steps of the playback statistics *)

\* the player's own fields stand still
PlayerOnly == UNCHANGED <<options, browser, engine, currentSrc, currentFormat, retryCount,
                          engineEventHandlers, engineEventsSetup, eventListeners, closures,
                          errorCount, timers, out, step, attempts, calls, requested,
                          destroyed, gen, engines, win>>

StatsOnly == PlayerOnly /\ UNCHANGED <<flv, hls, media, surface, list, network, quality, factory, audio, throttled, isPictureInPicture>>

\* the events handleEngineEvent keeps statistics of
StatsEvents == {"play", "pause", "waiting", "canplay", "canplaythrough", "error"}

\* a step on the statistics starts: the counters are remembered
StatsBegin(op) == [stats EXCEPT !.ops = @ + 1, !.op = op, !.before = Counters(stats)]

StatsInit ==
    /\ \E b \in Browsers : Holds(Blank(EvtOptions, b))
    /\ flv = NoFlv
    /\ hls = NoHls
    /\ media = NoMedia
    /\ surface = NoSurface
    /\ list = NoList
    /\ stats = NoStats
    /\ network = NoNetwork
    /\ quality = NoQuality
    /\ factory = NoFactory
    /\ audio = NoAudio
    /\ throttled = NoThrottled
    /\ isPictureInPicture = FALSE

\* a second goes by
StatsTick ==
    /\ stats.now < MaxClock
    /\ stats' = [stats EXCEPT !.now = @ + 1, !.op = "tick", !.before = Counters(stats)]
    /\ StatsOnly

\* the engine raises an event that handleEngineEvent counts
StatsEvent ==
    /\ stats.ops < MaxStatOps
    /\ \E event \in StatsEvents : stats' = handleStatsEvent(StatsBegin(event), event)
    /\ StatsOnly

\* a timeupdate gets through the throttle: emit, then updatePlaybackStats
StatsTimeUpdate ==
    /\ stats.ops < MaxStatOps
    /\ stats' = updatePlaybackStats(StatsBegin("timeupdate"))
    /\ StatsOnly

\* the consumer calls getPlaybackStats()
StatsGet ==
    /\ stats.ops < MaxStatOps
    /\ stats' = getPlaybackStats(StatsBegin("get"))
    /\ StatsOnly

\* the consumer calls resetPlaybackStats()
StatsReset ==
    /\ stats.ops < MaxStatOps
    /\ stats' = resetPlaybackStats(StatsBegin("reset"))
    /\ StatsOnly

NextStats ==
    \/ StatsTick
    \/ StatsEvent
    \/ StatsTimeUpdate
    \/ StatsGet
    \/ StatsReset

SpecStats == StatsInit /\ [][NextStats]_vars

----------------------------------------------------------------------------
(* Steps of the network monitoring *)

NetworkOnly == PlayerOnly /\ UNCHANGED <<flv, hls, media, surface, list, stats, quality, factory, audio, throttled, isPictureInPicture>>

EffectiveTypes == {"2g", "4g"}
Downlinks == {1, 10}
Rtts == {50, 300}

\* what a browser with navigator.connection can report
Connected ==
    {NetworkInfo(online, effectiveType, downlink, rtt, saveData) :
        online \in BOOLEAN, effectiveType \in EffectiveTypes, downlink \in Downlinks,
        rtt \in Rtts, saveData \in BOOLEAN}

\* what a browser without navigator.connection reports: onLine, the rest
\* undefined
Unconnected == {NetworkInfo(online, "undefined", 0, 0, FALSE) : online \in BOOLEAN}

Navigators(connection) == IF connection THEN Connected ELSE Unconnected

\* a step of the network starts: what the player knew is remembered
NetworkBegin(op, navigator) ==
    [network EXCEPT !.op = op, !.old = network.networkInfo, !.navigator = navigator,
                    !.adjusted = FALSE, !.out = <<>>]

NetworkInit ==
    /\ \E b \in Browsers : Holds(Blank(EvtOptions, b))
    /\ flv = NoFlv
    /\ hls = NoHls
    /\ media = NoMedia
    /\ surface = NoSurface
    /\ list = NoList
    /\ stats = NoStats
    /\ \E connection \in BOOLEAN : \E navigator \in Navigators(connection) :
          network = setupNetworkMonitoring(navigator, connection)
    /\ quality = NoQuality
    /\ factory = NoFactory
    /\ audio = NoAudio
    /\ throttled = NoThrottled
    /\ isPictureInPicture = FALSE

\* the machine goes offline: 'offline' on the window; what the connection
\* reports may change with it
NetworkOffline ==
    /\ network.navigator.online
    /\ \E navigator \in Navigators(network.connection) :
          /\ ~navigator.online
          /\ network' = NetworkDispatch(NetworkBegin("offline", navigator))
    /\ NetworkOnly

\* the machine comes back online: 'online' on the window
NetworkOnline ==
    /\ ~network.navigator.online
    /\ \E navigator \in Navigators(network.connection) :
          /\ navigator.online
          /\ network' = NetworkDispatch(NetworkBegin("online", navigator))
    /\ NetworkOnly

\* navigator.connection dispatches 'change': one of its attributes differs
NetworkChange ==
    /\ network.connection
    /\ \E navigator \in Navigators(network.connection) :
          /\ navigator.online = network.navigator.online
          /\ navigator # network.navigator
          /\ network' = NetworkDispatch(NetworkBegin("change", navigator))
    /\ NetworkOnly

NextNetwork ==
    \/ NetworkOffline
    \/ NetworkOnline
    \/ NetworkChange

SpecNetwork == NetworkInit /\ [][NextNetwork]_vars

----------------------------------------------------------------------------
(* Steps of the quality selection *)

\* http://h/d.mpd
LocDash == Locator("http", TRUE, "mpd", FALSE, FALSE, FALSE, FALSE, FALSE, "", FALSE, FALSE)

QualitySrcs == {LocHls, LocDash, LocMp4}

\* the indices the consumer asks for: automatic and two levels
QualityIndices == {AutoLevel, 0, 2}

\* a step of the quality selection starts
QualityBegin(op, index) ==
    [quality EXCEPT !.op = op, !.index = index, !.calls = <<>>, !.emitted = FALSE,
                    !.returned = FALSE]

\* the library object of the player's engine after a load
BackendOf(s, env) == Backend(s.engine.kind, s.step.load, env)

QualityInit ==
    /\ \E b \in Browsers, src \in QualitySrcs \cup {NoSrc}, env \in Envs,
          setter \in BOOLEAN :
          LET s == Construct(EvtOptions, b, src, env)
          IN  /\ Holds(s)
              /\ quality = [NoQuality EXCEPT !.backend = BackendOf(s, env),
                                             !.autoSwitchSetter = setter]
    /\ flv = NoFlv
    /\ hls = NoHls
    /\ media = NoMedia
    /\ surface = NoSurface
    /\ list = NoList
    /\ stats = NoStats
    /\ network = NoNetwork
    /\ factory = NoFactory
    /\ audio = NoAudio
    /\ throttled = NoThrottled
    /\ isPictureInPicture = FALSE

\* the consumer calls setQualityLevel(index)
QualitySet ==
    /\ quality.sets < MaxQualitySets
    /\ \E index \in QualityIndices :
          quality' = [setQualityLevel(State, QualityBegin("setQualityLevel", index), index)
                         EXCEPT !.sets = @ + 1,
                                !.chosen = IF index >= 0 /\ engine # NoEngine
                                           THEN index ELSE @]
    /\ PlayerOnly
    /\ UNCHANGED <<flv, hls, media, surface, list, stats, network, factory, audio, throttled, isPictureInPicture>>

\* the consumer calls loadSource(src): the engine loads and has a new
\* library object
QualityLoad ==
    /\ quality.loads < MaxQualityLoads
    /\ \E src \in QualitySrcs, env \in Envs :
          \E s \in {loadSource([Begin("load") EXCEPT !.attempts = <<>>], src, env)} :
             /\ PlayerBecomes(s)
             /\ quality' = [QualityBegin("load", quality.index) EXCEPT
                               !.loads = @ + 1,
                               !.backend = IF s.step.load = "none" THEN @
                                           ELSE BackendOf(s, env)]
    /\ UNCHANGED <<flv, hls, media, surface, list, stats, network, factory, audio, throttled, isPictureInPicture>>

NextQuality ==
    \/ QualitySet
    \/ QualityLoad

SpecQuality == QualityInit /\ [][NextQuality]_vars

----------------------------------------------------------------------------
(* Steps of the detector and the factory *)

FactoryOnly == PlayerOnly /\ UNCHANGED <<flv, hls, media, surface, list, stats, network, quality, audio, throttled, isPictureInPicture>>

Schemes == {"http", "rtmp", ""}

Extensions == {"m3u8", "M3U8", "mpd", "flv", "mp4", "m4v", "webm", "ogg", "ogv", ""}

\* the locators given to the detector and the factory: absolute, with an
\* authority new URL() rejects, or relative (no scheme); with or without a
\* query string, a "/flv" and a "live"
FactorySrcs ==
    {src \in {Locator(scheme, host, ext, FALSE, slashFlv, live, pathFlv, FALSE, "", av1, query) :
                 scheme \in Schemes, host \in BOOLEAN, ext \in Extensions,
                 slashFlv \in BOOLEAN, live \in BOOLEAN, pathFlv \in BOOLEAN,
                 av1 \in BOOLEAN, query \in BOOLEAN} :
        /\ src.scheme = "" => ~src.host
        /\ src.ext = "flv" => src.pathFlv}

\* the engine classes of the factory
EngineClasses == {"hls", "dash", "flv", "native"}

FactoryInit ==
    /\ Holds(Blank(EvtOptions, Chrome))
    /\ flv = NoFlv
    /\ hls = NoHls
    /\ media = NoMedia
    /\ surface = NoSurface
    /\ list = NoList
    /\ stats = NoStats
    /\ network = NoNetwork
    /\ quality = NoQuality
    /\ \E src \in FactorySrcs : factory = [NoFactory EXCEPT !.src = src]
    /\ audio = NoAudio
    /\ throttled = NoThrottled
    /\ isPictureInPicture = FALSE

\* detectVideoFormat(src) is called
FactoryDetect ==
    /\ factory' = [factory EXCEPT !.op = "detect", !.failing = {},
                                  !.fallbackToNative = TRUE,
                                  !.format = detectVideoFormat(factory.src),
                                  !.engine = "none", !.thrown = "none"]
    /\ FactoryOnly

\* PlayerEngineFactory.create(video, src, {fallbackToNative}) is called
FactoryCreate ==
    /\ \E failing \in SUBSET EngineClasses, fallbackToNative \in BOOLEAN :
          \E made \in {create(factory.src, failing, fallbackToNative)} :
             factory' = [factory EXCEPT !.op = "create", !.failing = failing,
                                        !.fallbackToNative = fallbackToNative,
                                        !.format = detectVideoFormat(factory.src),
                                        !.engine = made.engine, !.thrown = made.thrown]
    /\ FactoryOnly

NextFactory ==
    \/ FactoryDetect
    \/ FactoryCreate

SpecFactory == FactoryInit /\ [][NextFactory]_vars

----------------------------------------------------------------------------
(* Steps of a player given RTMP locators *)

\* rtmp://h/live/s
LocRtmp == Locator("rtmp", TRUE, "", FALSE, FALSE, TRUE, FALSE, FALSE, "", FALSE, FALSE)
\* rtmp://bad host/live/s  (new URL() rejects the authority: no translation)
LocRtmpBad == Locator("rtmp", FALSE, "", FALSE, FALSE, TRUE, FALSE, FALSE, "", FALSE, FALSE)

RtmpSrcs == {LocRtmp, LocRtmpBad, LocFlv}

RtmpOptions ==
    [maxRetries : {0, 1}, fallbackSources : {<<>>, <<LocFlv>>},
     autoSelectBestFormat : BOOLEAN]

RtmpInit ==
    /\ \E o \in RtmpOptions, src \in RtmpSrcs \cup {NoSrc}, env \in Envs :
          Holds(Construct(o, Chrome, src, env))
    /\ flv = NoFlv
    /\ hls = NoHls
    /\ media = NoMedia
    /\ surface = NoSurface
    /\ list = NoList
    /\ stats = NoStats
    /\ network = NoNetwork
    /\ quality = NoQuality
    /\ factory = NoFactory
    /\ audio = NoAudio
    /\ throttled = NoThrottled
    /\ isPictureInPicture = FALSE

\* the consumer calls loadSource(src) with an RTMP or FLV locator
RtmpLoad ==
    /\ ~destroyed
    /\ calls < MaxCalls
    /\ \E src \in RtmpSrcs, env \in Envs :
          Becomes(Requested(Begin("loadSource"), src, env))

NextRtmp ==
    \/ Subscribe
    \/ RtmpLoad
    \/ Tick
    \/ FireFallback
    \/ FireRetry
    \/ EngineError
    \/ Destroy

SpecRtmp == RtmpInit /\ [][NextRtmp]_vars

----------------------------------------------------------------------------
(* Steps of the volume and the playback rate *)

\* the arguments given: below, at, within, at and above the limits, and NaN
VolumeArgs == {Num(x) : x \in {-50, VolumeMin, 30, VolumeMax, 250}} \cup {NaN}
RateArgs == {Num(x) : x \in {10, RateMin, 150, RateMax, 900}} \cup {NaN}

AudioBegin(op, arg) == [audio EXCEPT !.op = op, !.arg = arg, !.threw = FALSE]

AudioRest == UNCHANGED <<flv, hls, media, surface, list, stats, network, quality, factory,
                         throttled, isPictureInPicture>>

AudioInit ==
    /\ \E b \in Browsers, src \in {LocMp4, LocHls, NoSrc}, env \in Envs :
          Holds(Construct(EvtOptions, b, src, env))
    /\ flv = NoFlv
    /\ hls = NoHls
    /\ media = NoMedia
    /\ surface = NoSurface
    /\ list = NoList
    /\ stats = NoStats
    /\ network = NoNetwork
    /\ quality = NoQuality
    /\ factory = NoFactory
    /\ audio = NoAudio
    /\ throttled = NoThrottled
    /\ isPictureInPicture = FALSE

\* the consumer calls setVolume(volume)
AudioSetVolume ==
    /\ \E volume \in VolumeArgs :
          audio' = setVolume(State, AudioBegin("setVolume", volume), volume)
    /\ PlayerOnly
    /\ AudioRest

\* the consumer calls setPlaybackRate(rate)
AudioSetPlaybackRate ==
    /\ \E rate \in RateArgs :
          audio' = setPlaybackRate(State, AudioBegin("setPlaybackRate", rate), rate)
    /\ PlayerOnly
    /\ AudioRest

\* the consumer calls loadSource(src): an engine is attached
AudioLoad ==
    /\ ~destroyed
    /\ calls < MaxCalls
    /\ \E src \in {LocMp4, LocHls} :
          PlayerBecomes(Requested(Begin("loadSource"), src, "ok"))
    /\ audio' = AudioBegin("load", audio.arg)
    /\ AudioRest

\* the consumer calls destroy(): no engine is attached any more
AudioDestroy ==
    /\ ~destroyed
    /\ PlayerBecomes(destroyPlayer(Begin("destroy")))
    /\ audio' = AudioBegin("destroy", audio.arg)
    /\ AudioRest

NextAudio ==
    \/ AudioSetVolume
    \/ AudioSetPlaybackRate
    \/ AudioLoad
    \/ AudioDestroy

SpecAudio == AudioInit /\ [][NextAudio]_vars

----------------------------------------------------------------------------
(* Steps of a throttled function *)

ThrottledOnly == PlayerOnly /\ UNCHANGED <<flv, hls, media, surface, list, stats, network,
                                           quality, factory, audio,
                                           isPictureInPicture>>

\* the delays given to throttle, in units of 50 ms
Delays == {2, 3, 5}

ThrottleBegin(op) == [throttled EXCEPT !.op = op, !.invoked = FALSE]

ThrottleInit ==
    /\ Holds(Blank(EvtOptions, Chrome))
    /\ flv = NoFlv
    /\ hls = NoHls
    /\ media = NoMedia
    /\ surface = NoSurface
    /\ list = NoList
    /\ stats = NoStats
    /\ network = NoNetwork
    /\ quality = NoQuality
    /\ factory = NoFactory
    /\ audio = NoAudio
    /\ \E delay \in Delays : throttled = Throttle(delay)
    /\ isPictureInPicture = FALSE

\* the throttled function is called
ThrottleCall ==
    /\ throttled.invocations < MaxInvocations
    /\ throttled' = ThrottledFunction(ThrottleBegin("call"))
    /\ ThrottledOnly

\* a unit of time passes; a timer that is due may still be waiting for the
\* event loop
ThrottleTick ==
    /\ throttled' = [ThrottleBegin("tick") EXCEPT
                        !.since = Min(throttled.delay, @ + 1),
                        !.timer.remaining = Max(0, @ - 1)]
    /\ throttled' # throttled
    /\ ThrottledOnly

\* the event loop runs the callback of the timer, at or after its due time
ThrottleFire ==
    /\ throttled.invocations < MaxInvocations
    /\ throttled.timer.pending
    /\ throttled.timer.remaining = 0
    /\ throttled' = ThrottleTimeout(ThrottleBegin("timer"))
    /\ ThrottledOnly

NextThrottle ==
    \/ ThrottleCall
    \/ ThrottleTick
    \/ ThrottleFire

SpecThrottle == ThrottleInit /\ [][NextThrottle]_vars

----------------------------------------------------------------------------
(* The two waits side by side: a player whose loads keep failing schedules  *)
(* its reloads while an FLV engine loses its connection and reconnects.     *)

\* the options of the player: enough retries for the ceiling to be reached
BackoffOptions ==
    {[maxRetries |-> MaxBackoffRetries, fallbackSources |-> F,
      autoSelectBestFormat |-> FALSE] : F \in {<<>>, <<LocFlv>>}}

\* config.reconnectDelay as drawn here
ReconnectDelays == {RetryBaseDelay, DefaultReconnectDelay}

\* new VideoPlayer({src, ...}) whose first load fails, and an FLV engine with
\* autoReconnect after load(src)
BackoffInit ==
    /\ \E o \in BackoffOptions : Holds(Construct(o, Chrome, LocHls, "unsupported"))
    /\ \E m \in ReconnectLimits, d \in ReconnectDelays :
          flv = [FlvLoad([FlvEngine(TRUE, m) EXCEPT !.reconnectDelay = d], "ok")
                    EXCEPT !.out = <<>>]
    /\ hls = NoHls
    /\ media = NoMedia
    /\ surface = NoSurface
    /\ list = NoList
    /\ stats = NoStats
    /\ network = NoNetwork
    /\ quality = NoQuality
    /\ factory = NoFactory
    /\ audio = NoAudio
    /\ throttled = NoThrottled
    /\ isPictureInPicture = FALSE

NextBackoff ==
    \/ Tick
    \/ FireFallback
    \/ FireRetry
    \/ FlvLoss
    \/ FlvSuccess
    \/ FlvReconnect

SpecBackoff == BackoffInit /\ [][NextBackoff]_vars

----------------------------------------------------------------------------
(* Picture-in-picture: the consumer subscribes and loads, the video element *)
(* enters and leaves picture-in-picture.  setupNativeVideoEvents adds its   *)
(* listeners with addEventListener on every run of setupEngineEvents and    *)
(* nothing removes them, so the element carries one pair per run: gen.      *)

PipEvents == {"pictureinpictureenter", "pictureinpictureleave"}

\* the element dispatches to the listeners of setupNativeVideoEvents runs
\* 1..k, in the order they were added: each calls emit(ev)
RECURSIVE DispatchNative(_, _, _)
DispatchNative(s, ev, k) ==
    IF k = 0 THEN s
    ELSE The({Emit(y, ev, "native", k) : y \in {DispatchNative(s, ev, k - 1)}})

\* everything but the player and isPictureInPicture stands still
PipRest == UNCHANGED <<flv, hls, media, surface, list, stats, network, quality,
                       factory, audio, throttled>>

\* new VideoPlayer(options), with or without options.src
PipInit ==
    /\ \E src \in {LocMp4, NoSrc}, env \in Envs :
          Holds(Construct(EvtOptions, Chrome, src, env))
    /\ flv = NoFlv
    /\ hls = NoHls
    /\ media = NoMedia
    /\ surface = NoSurface
    /\ list = NoList
    /\ stats = NoStats
    /\ network = NoNetwork
    /\ quality = NoQuality
    /\ factory = NoFactory
    /\ audio = NoAudio
    /\ throttled = NoThrottled
    /\ isPictureInPicture = FALSE

\* the consumer registers callbacks for both picture-in-picture events
PipSubscribe ==
    /\ ~destroyed
    /\ eventListeners = {}
    /\ PlayerBecomes([Begin("on") EXCEPT !.eventListeners = PipEvents])
    /\ PipRest
    /\ UNCHANGED isPictureInPicture

\* the consumer calls loadSource(src)
PipLoad ==
    /\ ~destroyed
    /\ calls < MaxCalls
    /\ \E src \in UserSrcs, env \in Envs :
          PlayerBecomes(Requested(Begin("loadSource"), src, env))
    /\ PipRest
    /\ UNCHANGED isPictureInPicture

\* the video element raises enterpictureinpicture
PipEnter ==
    /\ ~isPictureInPicture
    /\ PlayerBecomes(DispatchNative(Begin("enterpictureinpicture"),
                                    "pictureinpictureenter", gen))
    /\ PipRest
    /\ isPictureInPicture' = (gen > 0)

\* the video element raises leavepictureinpicture
PipLeave ==
    /\ isPictureInPicture
    /\ PlayerBecomes(DispatchNative(Begin("leavepictureinpicture"),
                                    "pictureinpictureleave", gen))
    /\ PipRest
    /\ isPictureInPicture' = FALSE

NextPip ==
    \/ PipSubscribe
    \/ PipLoad
    \/ PipEnter
    \/ PipLeave
    \/ Tick
    \/ FireRetry

SpecPip == PipInit /\ [][NextPip]_vars

----------------------------------------------------------------------------
(* Claims *)

LoadTimers == SelectSeq(timers, LAMBDA t : t.kind \in {"retry", "fallback"})

ErrorsEmitted == SelectSeq(out, LAMBDA e : e.ev = "error")

\* C1: an engine is never kept to load a locator of another format than the
\* one it was created for: on a format change loadSource replaces the engine.
C1_EngineMatchesFormat ==
    engine.loaded # NoSrc => engine.fmt = detectVideoFormat(engine.loaded)

\* C2: the retry counter stays within 0..maxRetries, and it goes back to 0
\* only in a step whose engine.load returned without error.
C2_RetryCounter ==
    /\ [](retryCount \in 0..options.maxRetries)
    /\ [][retryCount' < retryCount => (retryCount' = 0 /\ step'.load = "ok")]_vars

\* C2 witness: a failed load has brought the counter up to maxRetries = 3.
C2_Witness ==
    /\ options.maxRetries = DefaultMaxRetries
    /\ retryCount = DefaultMaxRetries
    /\ step.load = "fail"

\* the chain started by the consumer's only loadSource call, every load failing
FailingChain ==
    /\ calls = 1
    /\ ~destroyed
    /\ requested.allFailed
    /\ attempts # <<>>

\* a sequence without its consecutive repetitions
RECURSIVE Dedup(_)
Dedup(a) ==
    IF Len(a) <= 1 THEN a
    ELSE IF a[1] = a[2] THEN Dedup(Tail(a))
    ELSE <<a[1]>> \o Dedup(Tail(a))

\* the terminal error is the last thing the step emitted (when the consumer listens)
TerminalEmitted ==
    "error" \in eventListeners =>
        /\ out # <<>>
        /\ out[Len(out)].via = "final"

\* the scenario of C3: fallbacks [f1, f2], maxRetries = 3
Scenario3 ==
    /\ options.fallbackSources = <<LocFlv, LocMp4>>
    /\ options.maxRetries = DefaultMaxRetries

ChainInOrder ==
    /\ IsPrefix(Dedup(attempts), <<requested.src>> \o options.fallbackSources)
    /\ Scenario3 => IsPrefix(attempts, <<requested.src, LocFlv, LocMp4>>)
    /\ (LoadTimers = <<>> /\ step.load = "fail") =>
          /\ TerminalEmitted
          /\ Scenario3 => attempts = <<requested.src, LocFlv, LocMp4>>

C4_OnlyTerminalError == step.scheduled => ErrorsEmitted = <<>>

\* C5: when the engine raises 'error' after load and attempts remain, a reload
\* (fallback or same source) is scheduled.
C5_BackendErrorRetried ==
    (step.op = "engineError" /\ retryCount < options.maxRetries) => step.scheduled

\* C6: after destroy() no timer creates an engine, loads a source, schedules
\* another timer or emits to the consumer.
C6_NothingAfterDestroy ==
    destroyed =>
        /\ engine = NoEngine
        /\ step.op = "timer" => (~step.scheduled /\ out = <<>>)

\* C7: once the reload timers have run, the engine holds the locator of the
\* consumer's most recent loadSource call, if that call's load succeeded.
C7_NoStaleReload ==
    (requested.ok /\ ~destroyed /\ LoadTimers = <<>>) => engine.loaded = requested.src

\* C8: the listeners on the active engine are exactly the recorded handlers.
C8_TableAgrees ==
    engine # NoEngine => engine.listeners = engineEventHandlers

\* C9: once a load has subscribed the engine anew, nothing the previous
\* subscription left behind (its handlers, its throttle and debounce timers)
\* emits to the consumer.
C9_NoOldSubscription ==
    \A i \in 1..Len(out) :
        out[i].via \in {"fwd", "throttle", "debounce"} => out[i].gen = gen

\* the window of the bookkeeping is over and belongs to the current subscription
WindowSettled ==
    /\ win.raw >= 1
    /\ win.gen = gen
    /\ WindowOver(State)

\* C10: K >= 1 raw timeupdate events within one 250 ms window give the
\* consumer exactly one 'timeupdate', which carries the last raw event.
C10_OnePerWindow ==
    WindowSettled => (win.emitted = 1 /\ win.seen = win.raw)

\* C11: the consumer gets 'volumechange' only from the debounce timer, after
\* the quiet period; the raw events of a burst emit nothing by themselves.
C11_OnlyAfterQuiet ==
    \A i \in 1..Len(out) : out[i].ev = "volumechange" => out[i].via = "debounce"

\* a timer of the coalescing closure of ev is pending
CoalescingPending(ev) ==
    \E i \in 1..Len(timers) :
        /\ timers[i].kind \in {"throttle", "debounce"}
        /\ timers[i].ev = ev
        /\ timers[i].remaining <= timers[i].delay

\* C12: the last raw event of a coalesced class is never dropped: as long as
\* no throttled / debounced emission has been made at or after it, a timer
\* that makes this emission is pending (and fires once its delay is over).
C12_NeverDropped ==
    \A ev \in win.owed : CoalescingPending(ev)

\* C12 witness: seeking events were merged by the throttle, its trailing timer
\* has fired and delivered what was owed.
C12_Witness ==
    /\ step.op = "timer"
    /\ win.owed = {}
    /\ out # <<>>
    /\ out[1].via = "throttle"
    /\ out[1].ev = "seeking"

\* C13: with autoReconnect and maxReconnectAttempts = 2, after the third
\* consecutive connection-loss signal exactly 2 reconnect attempts have been
\* scheduled, never a third, and the third signal leaves the status 'error'.
C13_TwoAttemptsThenError ==
    (flv.autoReconnect /\ flv.maxReconnectAttempts = 2 /\ flv.streak = 3) =>
        /\ flv.sched = 2
        /\ flv.op = "loss" => flv.connectionStatus = "error"

\* C14: the reconnect loop ends: since the last success signal or manual
\* reconnect() never more than maxReconnectAttempts reconnects are scheduled.
C14_ReconnectTerminates ==
    flv.autoReconnect => flv.sched <= flv.maxReconnectAttempts

\* C15: the step in which the reconnect attempts are found exhausted emits
\* 'error'.
C15_ExhaustionEmitsError ==
    flv.exhausted => \E i \in 1..Len(flv.out) : flv.out[i].ev = "error"

\* C16: the status carried by the last connectionstatuschange event is the
\* one getConnectionStatus() returns.
C16_StatusAnnounced ==
    flv.last # "none" => flv.last = flv.connectionStatus

\* C17: the HLS engine recovers internally from a fatal network or media
\* error once; when the step that handles a fatal error of a type that has
\* already been recovered from (no load and no parsed manifest in between)
\* ends, the engine has emitted "error".
C17_RecoveryBounded ==
    (hls.op = "fatal" /\ hls.type \in {"networkError", "mediaError"}
                      /\ hls.streak[hls.type] >= 2) =>
        \E i \in 1..Len(hls.out) : hls.out[i] = "error"

\* C18: after a second destroy() the engine is still absent, the player has
\* no listener and no timer, and the stored playback position is the one the
\* first destroy() left.
C18_DestroyIdempotent ==
    media.destroys >= 2 =>
        /\ engine = NoEngine
        /\ eventListeners = {}
        /\ engineEventHandlers = EmptyHandlers
        /\ timers = <<>>
        /\ ~media.positionSaveTimer
        /\ media.history = media.kept

\* C19: a destroyed engine has no entry in its listener map and no listener
\* of its own on the video element, so the element never carries more
\* engine listeners per event than one live engine registers.
C19_NoListenerLeft ==
    /\ \A id \in 1..Len(surface.engines) :
          surface.engines[id].destroyed =>
              /\ surface.engines[id].eventListeners = {}
              /\ \A e \in VideoEvents :
                    \A k \in 1..Len(surface.video[e]) : surface.video[e][k] # id
    /\ \A e \in VideoEvents : Len(surface.video[e]) <= 1

\* C20: playlistIndex is -1 when the playlist is empty and an index of the
\* playlist otherwise.
C20_IndexValid ==
    IF list.playlist = <<>> THEN list.playlistIndex = -1
    ELSE 0 <= list.playlistIndex /\ list.playlistIndex < Len(list.playlist)

\* C21: while a shuffle is in force and the items were not edited, the order
\* captured is the playlist as it was just before that shuffle; a restore
\* (restorePlaylistOrder or setPlaylistShuffle(false)) then puts exactly that
\* sequence back, clears the captured order and ends the shuffle.
C21_RestoreExact ==
    /\ list.clean => list.playlistOriginalOrder = list.before
    /\ list.restored =>
          /\ list.playlist = list.before
          /\ list.playlistOriginalOrder = <<>>
          /\ ~list.playlistShuffle

C21_Witness ==
    /\ list.restored
    /\ list.moved
    /\ Len(list.playlist) >= 2
    /\ list.playlist = list.before

\* C22: the step that handles "ended" with a non-empty playlist moves the
\* cursor to (cursor + 1) mod length and loads that item in loop mode "all",
\* reloads the item under the cursor and leaves the cursor in loop mode
\* "one", and in loop mode "none", as with an empty playlist, loads nothing
\* and leaves the cursor and the loaded source as they were.
C22_EndedPolicy ==
    list.op = "ended" =>
        LET n == Len(list.playlist)
        IN  IF n > 0 /\ list.playlistLoop = "all"
            THEN /\ list.playlistIndex = (list.prevIndex + 1) % n
                 /\ attempts = <<list.playlist[list.playlistIndex + 1]>>
            ELSE IF n > 0 /\ list.playlistLoop = "one"
            THEN /\ list.playlistIndex = list.prevIndex
                 /\ attempts = <<list.playlist[list.prevIndex + 1]>>
            ELSE /\ list.playlistIndex = list.prevIndex
                 /\ currentSrc = list.prevSrc
                 /\ attempts = <<>>

C22_Witness ==
    /\ list.op = "ended"
    /\ list.playlistLoop = "all"
    /\ Len(list.playlist) >= 2
    /\ list.prevIndex = Len(list.playlist) - 1
    /\ list.playlistIndex = 0

\* C23: when the position saver runs at position / duration < 0.9 the stored
\* position is that position, and at position / duration >= 0.9 nothing is
\* stored for the locator; when metadata of a load is ready and the position
\* stored when that load began is above the restore threshold, a restore to
\* that position is scheduled.
C23_RoundTrip ==
    /\ (media.op = "save" /\ currentSrc # NoSrc /\ media.at.duration > 0) =>
          media.history = IF media.at.position * 10 >= media.at.duration * 9
                          THEN NoPosition ELSE media.at.position
    /\ (media.op = "metadata" /\ media.enablePlaybackHistory
                              /\ media.left > RestoreThreshold) =>
          [src |-> currentSrc, position |-> media.left] \in media.restoring

\* C24: between calls to resetPlaybackStats no counter of stats decreases:
\* after every event (play, pause, timeupdate, waiting, canplay, error) and
\* every getPlaybackStats call each of totalPlayTime, totalBufferingTime,
\* bufferingCount and errorCount is at least what it was before.
C24_CountersMonotonic ==
    stats.op # "reset" =>
        /\ stats.totalPlayTime >= stats.before.totalPlayTime
        /\ stats.totalBufferingTime >= stats.before.totalBufferingTime
        /\ stats.bufferingCount >= stats.before.bufferingCount
        /\ stats.errorCount >= stats.before.errorCount

\* C30: a setQualityLevel(i) with i >= 0 that reaches the library object of an
\* adaptive engine leaves automatic switching off, with the index applied
\* last, and records i as preferredQuality; after a later loadSource the
\* preference is still the last index chosen; setQualityLevel(-1) leaves
\* automatic switching on.
C30_QualityPinned ==
    /\ (quality.op = "setQualityLevel" /\ quality.returned /\ quality.index >= 0) =>
          /\ ~quality.backend.auto
          /\ quality.backend.level = quality.index
          /\ quality.calls[Len(quality.calls)] \in {"currentLevel", "setQualityFor"}
          /\ quality.preferredQuality = quality.index
    /\ (quality.op = "setQualityLevel" /\ quality.returned /\ quality.index = AutoLevel) =>
          quality.backend.auto
    /\ quality.op = "load" => quality.preferredQuality = quality.chosen

\* C29: an online->offline or offline->online transition makes the player
\* refresh networkInfo, re-evaluate the preload policy and emit
\* 'networkchange', as a change of the connection class or of the data-saver
\* flag does; a change of downlink or RTT alone makes it do neither.
C29_ReactsToTransitions ==
    LET reacted == /\ network.networkInfo = network.navigator
                   /\ network.adjusted
                   /\ network.out = <<"networkchange">>
        classOrSaver == \/ network.old.effectiveType # network.navigator.effectiveType
                        \/ network.old.saveData # network.navigator.saveData
    IN  /\ network.op \in {"online", "offline"} => reacted
        /\ (network.op = "change" /\ classOrSaver) => reacted
        /\ (network.op = "change" /\ ~classOrSaver) =>
              (~network.adjusted /\ network.out = <<>>)

\* the class of the specialised engine create constructs for the locator of
\* the last call ("none": it constructs the native engine straight away)
SpecialisedClass ==
    CASE factory.format \in {"hls", "dash", "flv"} -> factory.format
      [] factory.format = "rtmp" /\ convertRTMPToHTTPFLV(factory.src) # NoSrc -> "flv"
      [] OTHER -> "none"

C26_DetectTotal ==
    factory.op = "detect" => factory.format \in VideoFormats

\* C27: a locator whose extension is in the extension table is given the
\* table's tag, whatever its scheme, query string and casing and whether it is
\* absolute or relative.
C27_ExtensionTable ==
    (factory.op = "detect" /\ ExtensionTable(Lower(factory.src.ext)) # {}) =>
        factory.format \in ExtensionTable(Lower(factory.src.ext))

\* the consumer's last step was loadSource with an RTMP locator that
\* convertRTMPToHTTPFLV cannot translate, and no fallback source was
\* selected in its place
UntranslatedRtmp ==
    /\ step.op = "loadSource"
    /\ currentSrc.scheme \in {"rtmp", "rtmps"}
    /\ convertRTMPToHTTPFLV(currentSrc) = NoSrc
    /\ requested.src = currentSrc

\* C28: loading an RTMP locator that cannot be translated to HTTP-FLV fails
\* with an error the consumer (who listens to 'error') observes, and no
\* engine takes the untranslated locator as a successful load.
C28_RtmpFailureObservable ==
    (UntranslatedRtmp /\ "error" \in eventListeners) =>
        /\ \E i \in 1..Len(out) : out[i].ev = "error"
        /\ \A i \in 1..Len(attempts) : attempts[i].scheme \notin {"rtmp", "rtmps"}
                                          \/ step.load # "ok"

\* C31: whatever numbers setVolume and setPlaybackRate are given, with or
\* without an engine attached, the volume stays within [0, 1] and the
\* playback rate within [0.25, 4], and an argument within the range is
\* stored as it is.
C31_Clamped ==
    /\ audio.volume \in VolumeMin..VolumeMax
    /\ audio.playbackRate \in RateMin..RateMax
    /\ (audio.op = "setVolume" /\ ~audio.arg.nan
           /\ audio.arg.x \in VolumeMin..VolumeMax) => audio.volume = audio.arg.x
    /\ (audio.op = "setPlaybackRate" /\ ~audio.arg.nan
           /\ audio.arg.x \in RateMin..RateMax) => audio.playbackRate = audio.arg.x

\* C31 witness: without an engine setVolume was given 2.5 and the volume is 1.
C31_Witness ==
    /\ engine = NoEngine
    /\ audio.op = "setVolume"
    /\ audio.arg = Num(250)
    /\ audio.volume = VolumeMax

\* C32: func is never called twice with less than delay between the two
\* calls, whenever the throttled function is called and whenever its timer
\* fires, late or on time.
C32_AtLeastDelayApart ==
    throttled.invoked => throttled.gap >= throttled.delay

(* C33: in a chain of failing loads every failed attempt raises retryCount *)
(* by exactly 1 while attempts remain, and the first chain of a live       *)
(* player ends in the terminal error after maxRetries + 1 attempts, also   *)
(* when the fallback list is shorter than maxRetries.                      *)
TerminalFailure ==
    /\ step.load = "fail"
    /\ ~step.scheduled
    /\ calls = 1
    /\ ~destroyed
    /\ requested.allFailed

C33_OneIncrementPerFailure ==
    /\ [][step'.load = "fail" =>
            retryCount' = IF AttemptsRemain(State) THEN retryCount + 1
                          ELSE retryCount]_vars
    /\ [](TerminalFailure => Len(attempts) = options.maxRetries + 1)

(* C34: the wait before a retry or reconnect is exponential at both call   *)
(* sites: min(1000 * 2^(n-1), 10000) ms before the player's reload, and    *)
(* the same formula over reconnectDelay before the FLV engine's reconnect. *)
ReloadWaits ==
    \A i \in 1..Len(timers) :
        timers[i].kind \in {"retry", "fallback"} =>
            timers[i].delay = Min(1000 * Pow2(retryCount - 1), 10000)

Occurrences(items, e) == Cardinality({i \in 1..Len(items) : items[i] = e})

IsPermutation(a, b) ==
    /\ Len(a) = Len(b)
    /\ \A i \in 1..Len(a) : Occurrences(a, a[i]) = Occurrences(b, a[i])

\* setPlaylistShuffle(true) has just run shufflePlaylist
Shuffled ==
    /\ list'.op = "setPlaylistShuffle"
    /\ ~list.playlistShuffle
    /\ list'.playlistShuffle
    /\ Len(list.playlist) > 0

OutOfRangeCall ==
    /\ list'.op \in {"loadPlaylistItem", "jumpToPlaylistItem"}
    /\ list'.arg < 0 \/ list'.arg >= Len(list.playlist)

C36_OutOfRangeNoEffect ==
    [][OutOfRangeCall =>
         /\ list'.playlistIndex = list.playlistIndex
         /\ list'.playlist = list.playlist
         /\ currentSrc' = currentSrc
         /\ engine' = engine
         /\ attempts' = <<>>
         /\ out' = <<>>
         /\ list'.emitted = <<>>
         /\ list'.op = "jumpToPlaylistItem" => list'.returned = "false"]_vars

C36_Witness ==
    /\ list.op = "jumpToPlaylistItem"
    /\ list.arg >= Len(list.playlist)
    /\ Len(list.playlist) > 0
    /\ list.returned = "false"
    /\ currentSrc # NoSrc
    /\ list.playlistIndex = list.prevIndex

(* C37: removing an item other than the one under the cursor keeps the     *)
(* playing item current: playlist[playlistIndex] is the same item as       *)
(* before, and the source is not loaded again.                             *)
RemovedElsewhere ==
    /\ list'.op = "removePlaylistItem"
    /\ 0 <= list'.arg /\ list'.arg < Len(list.playlist)
    /\ 0 <= list.playlistIndex /\ list.playlistIndex < Len(list.playlist)
    /\ list'.arg # list.playlistIndex

C37_RemoveKeepsCurrent ==
    [][RemovedElsewhere =>
         /\ 0 <= list'.playlistIndex /\ list'.playlistIndex < Len(list'.playlist)
         /\ list'.playlist[list'.playlistIndex + 1] = list.playlist[list.playlistIndex + 1]
         /\ attempts' = <<>>]_vars

(* C38: restoring the order keeps the membership the playlist has at that  *)
(* moment: an item added while shuffled stays, an item removed while       *)
(* shuffled does not come back.                                            *)
Restored ==
    /\ list'.op \in {"restorePlaylistOrder", "setPlaylistShuffle"}
    /\ Len(list.playlistOriginalOrder) > 0
    /\ list'.playlistOriginalOrder = <<>>

C38_RestoreKeepsMembership ==
    [][Restored => IsPermutation(list.playlist, list'.playlist)]_vars

(* C39: the delayed seek of a position restore scheduled for one locator   *)
(* never runs once the player has switched to another locator or has been  *)
(* destroyed.                                                              *)
C39_NoStaleRestore ==
    [][media'.op = "restore" =>
         \A r \in media.restoring \ media'.restoring :
             r.src = currentSrc /\ ~destroyed]_vars

(* C40: whatever the number of loads, one native enterpictureinpicture or  *)
(* leavepictureinpicture event on the video element reaches a subscribed   *)
(* consumer as exactly one emission.                                       *)
C40_OneEmissionPerNativeEvent ==
    (step.op \in {"enterpictureinpicture", "leavepictureinpicture"}
         /\ PipEvents \subseteq eventListeners /\ gen > 0) =>
        Len(out) = 1
====
